---------------------------- MODULE MonitorEngineMC ----------------------------
(* Small instances of MonitorEngine for TLC. *)
EXTENDS MonitorEngine

CONSTANTS w1, k1, k2, s1, s2, desktop, telegram

Full == [skus |-> Skus, stores |-> Stores]

\* A release that offers everything, one that has lost its stores, and one whose
\* catalog does not load.
AnyCatalog == {Full, [Full EXCEPT !.stores = {}], None}

OnlyFull == {Full}

Form(enabled, channels, skus) ==
    [enabled |-> enabled, channels |-> channels, skus |-> skus,
     stores |-> Stores, anchor |-> CHOOSE s \in Stores : TRUE]

\* An enabled watch of everything, with every channel.
OneForm == {Form(TRUE, Channels, Skus)}

\* ... or of one SKU only.
TwoForms == OneForm \cup {Form(TRUE, Channels, {k1})}

Delays == {0, 1}
===============================================================================
