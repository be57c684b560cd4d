SPECIFICATION Spec
CONSTANT Builds <- MCBuilds
INVARIANT RegisteredAppKnows
