CONSTANTS
    Declarations <- MCDeclarations
    Targets <- MCTargets
    Methods <- MCMethods
    MaxRoutes = 2
SPECIFICATION Spec
INVARIANTS
    TypeOK
    
    
    NoneSkipped
