SPECIFICATION FairSpec
CONSTANTS
  MaxCores <- MCMaxCores
  Jobs <- MCJobs
  Elem <- MCElem
  Term <- MCTerm
  Copied <- MCCopied
  Code <- MCCode
  Wanted <- MCWanted
INVARIANTS TypeOK NoRace Rendezvous VerifyPasses
PROPERTY AllExit
