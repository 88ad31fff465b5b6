--------------------------- MODULE MCDeviceStore ---------------------------
(* Instances of the device store for TLC: one order, whose facts reach the *)
(* device before and after its own create, and one item.                   *)
EXTENDS DeviceStore

CONSTANTS me, peer, none, soup, dal, naan

Input(id, kind, key, line) ==
  [id |-> id, kind |-> kind, key |-> key, line |-> line, body |-> "a"]
Copy(id, dev, lam, kind, key, line, body) ==
  [id |-> id, dev |-> dev, lam |-> lam, kind |-> kind, key |-> key, line |-> line,
   body |-> body, prev |-> none, basis |-> "branch"]

Create == Input("create", "create", soup, none)
Shift == Input("shift", "cash", none, none)
LoginA == Input("loginA", "audit", none, none)
LoginB == Input("loginB", "audit", none, none)
OtherA == [LoginA EXCEPT !.body = "b"]

Confirm == Copy("confirm", peer, 0, "confirm", soup, none, "a")
Line == Copy("line", peer, 1, "line", soup, naan, "a")
Twin == Copy("line", peer, 1, "line", soup, naan, "b")
Close == Copy("close", peer, 2, "close", soup, none, "a")
Rival == Copy("rival", peer, 1, "toggle", dal, none, "a")
Ticket == Copy("ticket", peer, 3, "ticket", soup, none, "a")
Old == Copy("old", me, 0, "fact", soup, none, "a")

At(e, n) == [env |-> e, seq |-> n]

LedgerInputs == {LoginA, LoginB, OtherA}
LedgerCopies == {Line, Twin, Rival, Old}
LedgerPages == {<<At(Line, 0), At(Twin, 1)>>, <<At(Rival, 1), At(Line, 1)>>, <<At(Old, none), At(Line, none)>>}

FoldInputs == {Create, Shift}
FoldCopies == {Confirm, Line, Close, Ticket}
FoldPages == {<<At(Confirm, none), At(Close, none)>>, <<At(Ticket, none), At(Line, none)>>}

AllDrops == {{<<soup, none>>}, {<<soup, naan>>}}

AllInputs == LedgerInputs \cup FoldInputs
AllCopies == LedgerCopies \cup FoldCopies
AllPages == LedgerPages \cup FoldPages

(* A behaviour stays with one story: the ledger's, with numbers that clash *)
(* and one fault, or the folds', with drops and two.  A login is appended  *)
(* as it is before it is retried with another content.                     *)
Stories ==
  {[inputs |-> LedgerInputs, copies |-> LedgerCopies, numbered |-> TRUE, left |-> MaxFaults - 1],
   [inputs |-> FoldInputs, copies |-> FoldCopies, numbered |-> FALSE, left |-> 0]}

Handled == {x.env : x \in ToSet(call.todo)} \cup Ledger(db) \cup Ledger(disk)

OneStory ==
  \E s \in Stories :
    /\ \A e \in Handled : e \in s.copies \/ \E i \in s.inputs : i.id = e.id
    /\ \/ s.numbered /\ mem.orders = {} /\ mem.lines = {}
       \/ /\ ~s.numbered /\ DOMAIN db.gseq = {}
          /\ \A x \in ToSet(call.todo) : x.seq = none
    /\ faults >= s.left
    /\ \A x \in ToSet(call.todo) : Content(x.env) = Content(OtherA) => Stored(db, "loginA") # {}


StorySpec == Init /\ [][Next /\ OneStory']_vars

=============================================================================
