--------------------------- MODULE BlockRegistry ---------------------------
(***************************************************************************)
(* The registry of blocks (analysis/BlockRegistry.cpp): what the visitors  *)
(* fill and the analyzer looks functions up in.                            *)
(***************************************************************************)
EXTENDS CodeBlock

VARIABLE FunctionBlocks     \* the blocks, by the names of their functions

FindFunction(name) == name \in DOMAIN FunctionBlocks

\* A block of the same name is overwritten.
InsertOrAssign(name, block) ==
    [known \in DOMAIN FunctionBlocks \cup {name} |->
        IF known = name THEN block ELSE FunctionBlocks[known]]
=============================================================================
