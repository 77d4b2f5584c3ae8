SPECIFICATION Spec
CONSTANTS
    signup = signup
    reset = reset
    alice = alice
    bob = bob
    None = None
    Default <- MCDefault
    Purposes <- MCPurposes
    Addressees <- MCAddressees
    MAX_ATTEMPTS = 1
    MaxCodes = 2
    MaxRequests = 3
INVARIANTS ShownIsSelected SessionHasCode SuccessIsValidated
