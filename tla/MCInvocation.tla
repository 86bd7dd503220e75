---------------------------- MODULE MCInvocation ----------------------------
(***************************************************************************)
(* Two trees.  In the first a root LlmAgent can go to an LlmAgent or to a  *)
(* loop around a critic; in the second to a sequence of two LlmAgents.     *)
(***************************************************************************)
EXTENDS Invocation

LoopAgents == {"root", "helper", "refine", "critic"}
LoopKind == [a \in LoopAgents |-> IF a = "refine" THEN "loop" ELSE "llm"]
LoopSubs == [a \in LoopAgents |-> CASE a = "root"   -> <<"helper", "refine">>
                                    [] a = "refine" -> <<"critic">>
                                    [] OTHER        -> << >>]
LoopCallbacks == [a \in LoopAgents |-> IF a = "helper" THEN {"none", "content", "delta"}
                                                       ELSE {"none"}]

FlowAgents == {"root", "flow", "writer", "editor"}
FlowKind == [a \in FlowAgents |-> IF a = "flow" THEN "seq" ELSE "llm"]
FlowSubs == [a \in FlowAgents |-> CASE a = "root" -> <<"flow">>
                                    [] a = "flow" -> <<"writer", "editor">>
                                    [] OTHER      -> << >>]
FlowCallbacks == [a \in FlowAgents |-> {"none"}]
=============================================================================
