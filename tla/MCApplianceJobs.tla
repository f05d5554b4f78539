--------------------------- MODULE MCApplianceJobs ---------------------------
(* Model-checking instances of ApplianceJobs: the cfgs give every constant.  *)
EXTENDS ApplianceJobs
=============================================================================
