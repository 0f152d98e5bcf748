\* Any history of edits, renderings and pushes of up to three claims.
SPECIFICATION Spec
CONSTANTS
    Claims <- MCClaims
    MaxClaims = 3
INVARIANTS TypeOK GreenIsComplete GreenResolves VouchedPasses
