---------------------------- MODULE MCDevSidebar ----------------------------
(* Instances of DevSidebar for TLC. *)
EXTENDS DevSidebar

CONSTANTS i1, i2

TwoInstances == {i1, i2}

\* A name, a URI, and JSON alone: the inputs that operations want.  Two of them
\* are behind a rule of their own.
OneOfEach == {"tools.call", "resources.subscribe", "completion.complete"}

Profiles == {[caps |-> {"tools", "resources", "resources.subscribe", "completions"},
              tool |-> "absent"],
             [caps |-> {"tools", "resources", "prompts"}, tool |-> "model"]}
=============================================================================
