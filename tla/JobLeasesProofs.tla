-------------------------- MODULE JobLeasesProofs --------------------------
(* What the contract of the pool is worth to its callers.                  *)
EXTENDS JobLeases, TLAPS

\* Any system that implements JobLeases hands a job to one caller at a time:
\* the pool by refinement, the sessions as its users.
THEOREM LeasesAreExclusive == LeasesSpec => []LeasesExclusive
<1> DEFINE Inv == LeasesTypeOK /\ LeasesExclusive
<1>1. LeasesInit => Inv
    BY DEF LeasesInit, LeasesTypeOK, LeasesExclusive
<1>2. Inv /\ [LeasesNext]_leaseVars => Inv'
  <2> SUFFICES ASSUME Inv, [LeasesNext]_leaseVars PROVE Inv'
      OBVIOUS
  <2>1. ASSUME NEW c \in Callers, NEW j \in Jobs, Grant(c, j) PROVE Inv'
      BY <2>1 DEF LeasesTypeOK, LeasesExclusive, Grant, Leased
  <2>2. ASSUME NEW c \in Callers, Touch(c) PROVE Inv'
      BY <2>2 DEF LeasesTypeOK, LeasesExclusive, Touch
  <2>3. ASSUME NEW c \in Callers, GiveBack(c) PROVE Inv'
      BY <2>3 DEF LeasesTypeOK, LeasesExclusive, GiveBack
  <2>4. ASSUME NEW js \in SUBSET dirty, Clean(js) PROVE Inv'
      BY <2>4 DEF LeasesTypeOK, LeasesExclusive, Clean
  <2>5. CASE UNCHANGED leaseVars
      BY <2>5 DEF leaseVars, LeasesTypeOK, LeasesExclusive
  <2> QED BY <2>1, <2>2, <2>3, <2>4, <2>5 DEF LeasesNext
<1>3. Inv => LeasesExclusive
    OBVIOUS
<1> QED BY <1>1, <1>2, <1>3, PTL DEF LeasesSpec
=============================================================================
