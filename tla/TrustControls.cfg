CONSTANTS
  ListKeys = {"allow"}
  ScalarKeys = {"failOn"}
  Default <- MCDefault
  Docs <- MCDocs
  Repos <- MCRepos
  MaxFailures = 1
SPECIFICATION Spec
INVARIANTS
  HeadNeverObeyed
  NothingSlipsPast
  NeverJudgesItself
