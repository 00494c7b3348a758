--------------------------- MODULE MCProviderCaches ---------------------------
(* Two calls of any two kinds over two inputs, one of them asked for twice  *)
(* in one request, and a provider that may change its dimensions.           *)
EXTENDS ProviderCaches, TLC

CONSTANTS first, second, oak, maple

MCRequest(kind, inputs) == [kind |-> kind, inputs |-> inputs]

MCRequests ==
  {MCRequest("embed", <<oak>>), MCRequest("embed", <<maple, oak, oak>>),
   MCRequest("corpus", <<oak>>), MCRequest("corpus", <<maple, oak, maple>>),
   MCRequest("generate", <<oak>>), MCRequest("rerank", <<oak>>)}

MCSymmetry == Permutations(Calls)

=============================================================================
