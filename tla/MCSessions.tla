----------------------------- MODULE MCSessions -----------------------------
(* Instances of the sessions for TLC: a till that may be hub and a kitchen *)
(* screen that only reads.                                                 *)
EXTENDS Sessions

CONSTANTS till, kds, menu, config

Bounds(on, of, t, d, p, r, b, a, y) ==
  [on |-> on, of |-> of, ticks |-> t, drops |-> d, publishes |-> p, revocations |-> r, blind |-> b,
   appends |-> a, relays |-> y]

(* The till sells while a reader is revoked; tokens run out over pushes    *)
(* and relayed renewals; a device whose events the till relays is revoked; *)
(* the menu, and the configuration, are published in steps under a fetch.  *)
Revocations == Bounds(Devices, {}, 0, 0, 0, 1, 0, 1, 0)
Expiries == Bounds({till}, {}, 2, 1, 0, 0, 1, 1, 1)
Origins == Bounds({till}, {}, 2, 0, 0, 1, 0, 0, 2)
Menus == Bounds({till}, {menu}, 0, 1, 2, 0, 0, 0, 0)
Configs == Bounds({till}, {config}, 0, 0, 2, 0, 0, 0, 0)

(* Two rows, a new name for one and the other deleted.                     *)
Row(i, gone) == [id |-> i, deleted |-> gone]
SomeChanges == {{Row(1, FALSE), Row(2, FALSE)}, {Row(1, FALSE)}, {Row(2, TRUE)}}
(* The menu grows by a row that is deleted before the till hears of it.    *)
Deletions == {Bounds({till}, {menu}, 0, 0, 3, 0, 0, 0, 0)}
AllScenes == {Revocations, Expiries, Origins, Menus, Configs}

=============================================================================
