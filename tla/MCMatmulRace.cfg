SPECIFICATION Spec
CONSTANTS
  MaxCores = 2
  Jobs <- MCJobs
  Elem <- MCElem
  Term <- MCTerm
  Copied <- MCCopied
  Code <- MCCode
  Wanted <- MCWanted
INVARIANT VerifyPasses
