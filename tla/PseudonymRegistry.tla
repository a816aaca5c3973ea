-------------------------- MODULE PseudonymRegistry --------------------------
(***************************************************************************)
(* What the gateway promises about pseudonyms: a device is given a name    *)
(* once, nobody else has it, it never changes, readings leave under that   *)
(* name only, and no answer speaks of a name a reading has not left under. *)
(* Keys, HMACs, collisions, suffixes, retries and restarts are not to be   *)
(* seen from here.                                                         *)
(***************************************************************************)
CONSTANTS Devices, Names, NoName

VARIABLES
  name,  (* the name of each device, once it has one                        *)
  used,  (* <<device, name>> of the readings that have left                 *)
  told   (* <<device, name>> of the answers that are kept                   *)

registryVars == <<name, used, told>>

RegistryInit ==
  /\ name = [d \in Devices |-> NoName]
  /\ used = {}
  /\ told = {}

(* A device without a name gets one that no device has.                     *)
Register(d) ==
  /\ name[d] = NoName
  /\ \E n \in Names :
       /\ \A e \in Devices : name[e] # n
       /\ name' = [name EXCEPT ![d] = n]
  /\ UNCHANGED <<used, told>>

(* A reading of the device leaves under the name it has.                    *)
Leave(d) ==
  /\ name[d] # NoName
  /\ used' = used \cup {<<d, name[d]>>}
  /\ UNCHANGED <<name, told>>

(* Answers are kept and forgotten.                                          *)
Tell ==
  /\ told' \subseteq used
  /\ UNCHANGED <<name, used>>

RegistryNext == (\E d \in Devices : Register(d) \/ Leave(d)) \/ Tell

RegistrySpec == RegistryInit /\ [][RegistryNext]_registryVars
=============================================================================
