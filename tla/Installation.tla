------------------------------ MODULE Installation ------------------------------
(***************************************************************************)
(* What automatic updates promise the owner of a machine, without files,   *)
(* helper or service manager: a service is up with a version and settings, *)
(* goes down now and then, and comes back with a version that is no older, *)
(* with every setting of that version, and with every choice of the owner. *)
(***************************************************************************)
EXTENDS Naturals

CONSTANTS Versions, Settings, Brings  \* Brings[v]: the settings version v comes with

VARIABLES version, up, setting

vars == <<version, up, setting>>

(* A setting that has a value keeps it, a choice above all.                *)
Adopted(old, v) ==
    [k \in Settings |-> IF old[k] = "none" /\ k \in Brings[v] THEN "shipped" ELSE old[k]]

Init == /\ version \in Versions
        /\ up = TRUE
        /\ setting = Adopted([k \in Settings |-> "none"], version)

Choose(k) == /\ setting' = [setting EXCEPT ![k] = "chosen"]
             /\ UNCHANGED <<version, up>>

GoDown == /\ up /\ up' = FALSE
          /\ UNCHANGED <<version, setting>>

Adopt(v) == /\ ~up
            /\ setting' = Adopted(setting, v)
            /\ UNCHANGED <<version, up>>

ComeUp(v) == /\ ~up /\ up' = TRUE
             /\ v >= version /\ version' = v
             /\ \A k \in Brings[v] : setting[k] # "none"
             /\ UNCHANGED setting

Next == \/ \E k \in Settings : Choose(k)
        \/ GoDown
        \/ \E v \in Versions : Adopt(v) \/ ComeUp(v)

Spec == Init /\ [][Next]_vars
===============================================================================
