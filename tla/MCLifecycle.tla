----------------------------- MODULE MCLifecycle -----------------------------
(* Lifecycle for TLC: every call may fail, or one of the two whose failure *)
(* is mishandled.                                                          *)
EXTENDS Lifecycle

AllCalls    == {graph_init[i].call : i \in DOMAIN graph_init} \ {"free"}
Framebuffer == {"vkCreateFramebuffer"}
Calloc      == {"calloc"}

=============================================================================
