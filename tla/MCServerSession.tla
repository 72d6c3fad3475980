-------------------------- MODULE MCServerSession --------------------------
EXTENDS ServerSession

MCPlan == [t \in Threads |-> IF t = lsp THEN <<"detect_and_resolve">> ELSE <<"index_pending">>]
=============================================================================
