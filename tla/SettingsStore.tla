---------------------------- MODULE SettingsStore ----------------------------
(***************************************************************************)
(* What the settings functions of settings.cpp promise their callers, with *)
(* no EEPROM layout: a store of camera settings per known camera (and one   *)
(* for the default camera, key NoSerial), stored general settings, the     *)
(* camera that is selected, and the working copy the menus edit.           *)
(*                                                                         *)
(*  - saving stores the working copy for the selected camera and the       *)
(*    general settings, and keeps the working copy;                        *)
(*  - selecting a camera gives the settings stored for it, and a camera    *)
(*    seen for the first time those of the default camera; at most         *)
(*    Capacity cameras are remembered, so a new camera may make one other  *)
(*    be forgotten, and only when the store is full;                       *)
(*  - going back to the default camera (disconnect or power-up) discards   *)
(*    the working copy;                                                    *)
(*  - a factory reset, with no camera selected, forgets every camera and   *)
(*    stores the factory values.                                           *)
(***************************************************************************)
EXTENDS FiniteSets, Functions, TLC

CONSTANTS Serials, NoSerial, Vals, FACTORY, Capacity

VARIABLES
    sel,        \* the selected camera, NoSerial for the default camera
    work,       \* the working copy of the camera settings
    workGen,    \* the working copy of the general settings
    store,      \* stored camera settings; its domain is the remembered cameras
    storeGen    \* stored general settings

vars == <<sel, work, workGen, store, storeGen>>

Known == DOMAIN store \ {NoSerial}

Init ==
    /\ \E K \in SUBSET Serials : Cardinality(K) <= Capacity /\ store \in [K \cup {NoSerial} -> Vals]
    /\ storeGen \in Vals
    /\ sel = NoSerial
    /\ work = store[NoSerial]
    /\ workGen = storeGen

Edit ==
    /\ \E v \in Vals : \/ work' = v /\ UNCHANGED workGen
                       \/ workGen' = v /\ UNCHANGED work
    /\ UNCHANGED <<sel, store, storeGen>>

Save ==
    /\ store' = [store EXCEPT ![sel] = work]
    /\ storeGen' = workGen
    /\ UNCHANGED <<sel, work, workGen>>

Reload ==
    /\ sel' = NoSerial
    /\ work' = store[NoSerial]
    /\ workGen' = storeGen
    /\ UNCHANGED <<store, storeGen>>

Select(s) ==
    /\ sel' = s
    /\ workGen' = storeGen
    /\ IF s \in Known
       THEN /\ work' = store[s]
            /\ UNCHANGED store
       ELSE /\ work' = store[NoSerial]
            /\ \E evicted \in SUBSET Known :
                  /\ Cardinality(evicted) = IF Cardinality(Known) < Capacity THEN 0 ELSE 1
                  /\ store' = (s :> store[NoSerial]) @@ Restrict(store, DOMAIN store \ evicted)
    /\ UNCHANGED storeGen

FactoryReset ==
    /\ sel = NoSerial
    /\ store' = (NoSerial :> FACTORY)
    /\ storeGen' = FACTORY
    /\ work' = FACTORY
    /\ workGen' = FACTORY
    /\ UNCHANGED sel

Next == Edit \/ Save \/ Reload \/ FactoryReset \/ \E s \in Serials : Select(s)

Spec == Init /\ [][Next]_vars

====
