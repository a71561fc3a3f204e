-------------------------- MODULE MCQueryPipeline --------------------------
EXTENDS QueryPipelineClaims
CONSTANTS t1, t2
============================================================================
