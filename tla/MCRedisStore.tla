----------------------------- MODULE MCRedisStore -----------------------------
EXTENDS RedisStore
=============================================================================
