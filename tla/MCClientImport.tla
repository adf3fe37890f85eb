--------------------------- MODULE MCClientImport ---------------------------
(* ClientImport for TLC, as the sum of five scenarios: requests that compete *)
(* for one source, and requests that would merge two parties into each       *)
(* other, with commands of users only; three runs of an import; one run of   *)
(* an import and two commands; two runs and one command.                     *)
EXTENDS ClientImport, TLC

Merge(p, q) == [status |-> "pending", source |-> p, target |-> q]
Scenario(n, asked, commands, r) == [parties |-> n, asked |-> asked, commands |-> commands, runs |-> r]
SomeScenarios ==
  {Scenario(3, <<Merge(1, 2), Merge(1, 3)>>, 3, 0), Scenario(2, <<Merge(1, 2), Merge(2, 1)>>, 3, 0),
   Scenario(0, <<>>, 0, 3), Scenario(1, <<>>, 2, 1), Scenario(1, <<>>, 1, 2)}

Interchangeable == Permutations(Importers) \union Permutations(Calls \ Importers)
=============================================================================
