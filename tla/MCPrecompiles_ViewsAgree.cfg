CONSTANTS
  None = None
  Addresses <- MCAddresses
SPECIFICATION Spec
INVARIANT PrecompileViewsAgree
