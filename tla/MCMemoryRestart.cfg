CONSTANT Ids = {m1, m2}
SPECIFICATION RestartSpec
INVARIANT ActiveIsSearchable
