------------------------- MODULE MCBrokerOperations -------------------------
(* Instances of BrokerOperations: which requests the callers may send. *)
EXTENDS BrokerOperations, TLC

Request(op, kind, restart, target, key) ==
    [op |-> op, kind |-> kind, restart |-> restart, target |-> target, key |-> key]

(* One container: a direct action and a runtime restart under different
   resource keys. *)
ContainerRequests ==
    {Request("a", "docker", FALSE, "container", "k1"),
     Request("b", "runtime", TRUE, "container", "k2")}

(* Two requests that use one operation id. *)
ReusedOperation ==
    {Request("a", "docker", FALSE, "container", "k1"),
     Request("a", "runtime", FALSE, "container", "k2")}

(* A runtime request and an ensure of the same container. *)
EnsureRequests ==
    {Request("a", "runtime", FALSE, "container", "k1"),
     Request("b", "ensure", FALSE, "container", "k2")}

(* Two Compose actions on one definition, reached under different keys. *)
ComposeRequests ==
    {Request("a", "compose", FALSE, "project", "k1"),
     Request("b", "compose", TRUE, "project", "k2")}

AllWorkloads ==
    {ContainerRequests, ReusedOperation, EnsureRequests, ComposeRequests}
=============================================================================
