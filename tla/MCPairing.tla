------------------------------ MODULE MCPairing ------------------------------
(* Two captains, one with two keys and a hull from before identities; two   *)
(* front ends.                                                              *)
EXTENDS Pairing, TLC

CONSTANTS LukesStore, LeiasStore

MCCaptainOf == "k1" :> "luke" @@ "k2" :> "luke" @@ "k3" :> "leia"

MCSlug == "luke" :> LukesStore @@ "leia" :> LeiasStore

MCHullOf == "k1" :> "a" @@ "k2" :> "b" @@ "k3" :> "c"

MCLegacy == 1 :> "k1"

\* Three commands one after another, or two at once.
Bounded == overlapped => commands <= 2

Symmetric == Permutations(Fronts)
=============================================================================
