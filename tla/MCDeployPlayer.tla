--------------------------- MODULE MCDeployPlayer ---------------------------
EXTENDS DeployPlayer

MCPrior == <<2, 0, 1, 3, 4>>
\* A value that tells positions, and the sides in them, apart.
MCNet(p) == ((Cardinality(p[1]) + Cardinality(p[2] \intersect {2, 5}) + Cardinality(p[1] \intersect {4})) % 3) - 1
MCVerdict(p) == IF p = <<{1, 2}, {3, 4}>> THEN -1 ELSE IF p = <<{1}, {2, 4}>> THEN 1 ELSE 0
MCProof(p) == IF p = <<{1}, {}>> THEN <<2, 3>> ELSE <<>>
MCOpenings == {<<1>>, <<1, 2, 4>>}
=============================================================================
