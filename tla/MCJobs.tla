--------------------------------- MODULE MCJobs ---------------------------------
EXTENDS Jobs
================================================================================
