---------------------------- MODULE MCTransform ----------------------------
(* Two containers.  Two IDs, of c1 and a prefix both share, or of c1 and   *)
(* one that no container has; or --all.  A channel of one result where     *)
(* there are two makes a worker block on main.                             *)
EXTENDS Transform, TLC

CONSTANTS w1, w2, c1, c2

Overlapping == (w1 :> {c1}) @@ (w2 :> {c1, c2})
Unknown == (w1 :> {c1}) @@ (w2 :> {})
MCLookups == {Overlapping, Unknown}

DefaultSetup == [runtime |-> "", storage |-> "", type |-> "docker", args |-> "ids"]

\* Defaults and devicemapper, and what is not supported.
MCSetups ==
  {DefaultSetup,
   [DefaultSetup EXCEPT !.storage = "devicemapper", !.args = "all"],
   [DefaultSetup EXCEPT !.runtime = "runc"],
   [DefaultSetup EXCEPT !.storage = "btrfs"],
   [DefaultSetup EXCEPT !.type = "cri-o"],
   [DefaultSetup EXCEPT !.args = "none"]}
MCNames == {"", "lcr", "runc", "overlay2", "devicemapper", "btrfs", "docker",
            "cri-o"}
IDsOnly == {DefaultSetup}
=============================================================================
