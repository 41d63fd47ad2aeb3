SPECIFICATION Spec
CONSTANTS
  RepoFlags <- MCRepoFlags
  PrefixFlags <- MCPrefixFlags
  Names <- MCNames
  Pages = 3
CHECK_DEADLOCK FALSE
INVARIANTS
  TypeOK
  TokenFits
  ListedName
  RepoLinkLeadsOn
  SameKind
