------------------------------ MODULE Pairing ------------------------------
(***************************************************************************)
(* How a device comes into existence: an owner mints a code, and may       *)
(* cancel it; a device that presents the code with its public key claims   *)
(* it, and gets a certificate of the organisation's issuer; a claim whose  *)
(* answer was lost is made again.  A claim is a series of statements, each *)
(* a transaction of its own, with awaits between them: every action below  *)
(* is one statement and the code up to the next.  One organisation, whose  *)
(* devices share one address.                                              *)
(* services/sync-gateway/src/pairing.ts, pairing-http.ts, registry.ts      *)
(***************************************************************************)
EXTENDS Integers, Sequences

CONSTANTS
  Codes,
  Devices,      \* the device ids a mint may draw
  Keys,         \* the public keys devices present
  Unreadable,   \* those that are no key at all
  Requests,     \* the claim requests the gateway gets, each of them once
  NoKey, NoRow, NoIssuer,
  Ttl, Window, Cap,   \* a code's life; the failures a source may have in a window of time
  Repeats,      \* may a mint draw a code again whose row is gone
  MaxTime, MaxFaults  \* bounds on the clock, and on failing statements and restarts

ASSUME PairingAssumption ==
  /\ Unreadable \subseteq Keys /\ NoKey \notin Keys
  /\ NoIssuer \notin Requests
  /\ Ttl \in Nat /\ Window \in Nat /\ Cap \in Nat \ {0}
  /\ Repeats \in BOOLEAN /\ MaxTime \in Nat /\ MaxFaults \in Nat
  /\ NoRow \notin [device : Devices, expires : Nat, key : Keys \cup {NoKey}]
  /\ NoRow \notin [key : Keys, issuer : Requests, revoked : BOOLEAN]

VARIABLES
  now,
  minted,      \* the draws of all mints, as pairs of a code and a device id
  pairing,     \* kernel.device_pairings, per code
  registry,    \* kernel.device_registry, per device, with the certificate's key and issuer
  issuer,      \* kernel.org_pki: the request that made the organisation's issuer
  request,     \* the claims under way: where each one is, and its locals
  failures,    \* this process's memory of failed claims: their times
  handed,      \* history: the certificates answered, and to which key
  cancelled,   \* history: the devices whose waiting row a cancel removed
  faults

tables == <<minted, pairing, registry, issuer>>
history == <<handed, cancelled>>
vars == <<now, tables, request, failures, history, faults>>

Refusals == {"unknown_code", "expired", "already_claimed", "rate_limited", "unavailable"}
Ended == Refusals \cup {"granted", "lost"}
Running(r) == request[r].at \notin Ended \cup {"idle"}

Init ==
  /\ now = 0
  /\ minted = {}
  /\ pairing = [c \in Codes |-> NoRow]
  /\ registry = [d \in Devices |-> NoRow]
  /\ issuer = NoIssuer
  /\ request = [r \in Requests |-> [at |-> "idle"]]
  /\ failures = <<>>
  /\ handed = {}
  /\ cancelled = {}
  /\ faults = MaxFaults

-----------------------------------------------------------------------------
(* The owner.                                                              *)

(* A draw that collides with a stored row, claimed or expired ones         *)
(* included, is drawn again.                                               *)
MintPairingCode(d) ==
  /\ \A p \in minted : p.device # d
  /\ \E c \in Codes :
       /\ pairing[c] = NoRow
       /\ Repeats \/ \A p \in minted : p.code # c
       /\ pairing' = [pairing EXCEPT ![c] = [device |-> d, expires |-> now + Ttl, key |-> NoKey]]
       /\ minted' = minted \cup {[code |-> c, device |-> d]}
  /\ UNCHANGED <<now, registry, issuer, request, failures, history, faults>>

FlawWaiting(row, d) == row # NoRow /\ row.device = d

Waiting(row, d) == row # NoRow /\ row.device = d /\ row.key = NoKey

CancelPairing(d) ==
  /\ \E c \in Codes : Waiting(pairing[c], d)
  /\ pairing' = [c \in Codes |-> IF Waiting(pairing[c], d) THEN NoRow ELSE pairing[c]]
  /\ cancelled' = cancelled \cup {d}
  /\ UNCHANGED <<now, minted, registry, issuer, request, failures, handed, faults>>

RevokeDevice(d) ==
  /\ registry[d] # NoRow /\ ~registry[d].revoked
  /\ registry' = [registry EXCEPT ![d].revoked = TRUE]
  /\ UNCHANGED <<now, minted, pairing, issuer, request, failures, history, faults>>

-----------------------------------------------------------------------------
(* A claim.                                                                *)

Recent(at) == SelectSeq(failures, LAMBDA t : t > at - Window)

(* The limiter, ahead of everything else, also of a claim that starts over.*)
Enter(r, q) ==
  /\ request' = [request EXCEPT ![r] =
       IF Len(Recent(q.now)) >= Cap THEN [at |-> "rate_limited"]
       ELSE [at |-> "read", code |-> q.code, key |-> q.key, now |-> q.now]]
  /\ failures' = Recent(q.now)

Refuse(r, why) ==
  /\ request' = [request EXCEPT ![r] = [at |-> why]]
  /\ failures' = Append(Recent(request[r].now), request[r].now)

Claim(r, code, key) ==
  /\ request[r].at = "idle"
  /\ Enter(r, [code |-> code, key |-> key, now |-> now])
  /\ UNCHANGED <<now, tables, history, faults>>

(* The checks on the row a code leads to, in their order.                  *)
Verdict(row, key, at) ==
  IF row = NoRow THEN "unknown_code"
  ELSE IF at > row.expires THEN "expired"
  ELSE IF key \in Unreadable THEN "unknown_code"
  ELSE IF row.key \notin {key, NoKey} THEN "already_claimed"
  ELSE IF row.key = key THEN "issued"
  ELSE "issuer"

ReadPending(r) ==
  /\ request[r].at = "read"
  /\ LET row == pairing[request[r].code]
         verdict == Verdict(row, request[r].key, request[r].now)
     IN  IF verdict \in Refusals THEN Refuse(r, verdict)
         ELSE /\ request' = [request EXCEPT ![r] =
                   [at |-> verdict, code |-> @.code, key |-> @.key, now |-> @.now,
                    device |-> row.device]]
              /\ UNCHANGED failures
  /\ UNCHANGED <<now, tables, history, faults>>

(* The same key again: the certificate it was given, unless the device is  *)
(* revoked, or was never registered.                                       *)
ReadIssuedCertificate(r) ==
  /\ request[r].at = "issued"
  /\ LET row == registry[request[r].device]
     IN  IF row = NoRow \/ row.revoked THEN Refuse(r, "already_claimed")
         ELSE /\ request' = [request EXCEPT ![r] =
                   [at |-> "return", key |-> @.key, now |-> @.now,
                    certificate |-> [device |-> @.device, key |-> row.key, issuer |-> row.issuer]]]
              /\ UNCHANGED failures
  /\ UNCHANGED <<now, tables, history, faults>>

Handed(to, certificate) == [to |-> to, certificate |-> certificate, under |-> issuer]

ReturnIssued(r) ==
  /\ request[r].at = "return"
  /\ handed' = handed \cup {Handed(request[r].key, request[r].certificate)}
  /\ request' = [request EXCEPT ![r] = [at |-> "granted"]]
  /\ UNCHANGED <<now, tables, failures, cancelled, faults>>

(* The organisation's issuer: read, or made, inserted unless there is one, *)
(* and read again.  A certificate is signed with what was read.            *)
Signed(r, by) ==
  request' = [request EXCEPT ![r] =
    [at |-> "claim", code |-> @.code, key |-> @.key, now |-> @.now, device |-> @.device,
     issuer |-> by]]

ReadOrgPki(r) ==
  /\ request[r].at = "issuer"
  /\ IF issuer # NoIssuer THEN Signed(r, issuer)
     ELSE request' = [request EXCEPT ![r].at = "make issuer"]
  /\ UNCHANGED <<now, tables, failures, history, faults>>

MakeOrgPki(r) ==
  /\ request[r].at = "make issuer"
  /\ issuer' = IF issuer = NoIssuer THEN r ELSE issuer
  /\ Signed(r, issuer')
  /\ UNCHANGED <<now, minted, pairing, registry, failures, history, faults>>

FlawClaimable(row) == row # NoRow

Claimable(row) == row # NoRow /\ row.key = NoKey

(* The commit point: whose update finds the row unclaimed has it, everyone *)
(* else starts over.                                                       *)
CommitClaim(r) ==
  /\ request[r].at = "claim"
  /\ LET q == request[r] IN
       IF Claimable(pairing[q.code])
       THEN /\ pairing' = [pairing EXCEPT ![q.code].key = q.key]
            /\ request' = [request EXCEPT ![r].at = "register"]
            /\ UNCHANGED failures
       ELSE /\ Enter(r, q)
            /\ UNCHANGED pairing
  /\ UNCHANGED <<now, minted, registry, issuer, history, faults>>

(* An insert, which a row of the device refuses; then the answer.          *)
RegisterDevice(r) ==
  /\ request[r].at = "register"
  /\ LET q == request[r] IN
       IF registry[q.device] = NoRow
       THEN /\ registry' = [registry EXCEPT ![q.device] =
                 [key |-> q.key, issuer |-> q.issuer, revoked |-> FALSE]]
            /\ handed' = handed \cup
                 {Handed(q.key, [device |-> q.device, key |-> q.key, issuer |-> q.issuer])}
            /\ request' = [request EXCEPT ![r] = [at |-> "granted"]]
       ELSE /\ request' = [request EXCEPT ![r] = [at |-> "unavailable"]]
            /\ UNCHANGED <<registry, handed>>
  /\ UNCHANGED <<now, minted, pairing, issuer, failures, cancelled, faults>>

-----------------------------------------------------------------------------
(* A statement fails: the claim ends there and keeps what it has done.     *)
Fail(r) ==
  /\ Running(r) /\ faults > 0
  /\ faults' = faults - 1
  /\ request' = [request EXCEPT ![r] = [at |-> "unavailable"]]
  /\ UNCHANGED <<now, tables, failures, history>>

(* The gateway stops and starts: claims under way and the limiter's memory *)
(* are gone.                                                               *)
Restart ==
  /\ faults > 0
  /\ faults' = faults - 1
  /\ request' = [r \in Requests |-> IF Running(r) THEN [at |-> "lost"] ELSE request[r]]
  /\ failures' = <<>>
  /\ UNCHANGED <<now, tables, history>>

Tick ==
  /\ now < MaxTime
  /\ now' = now + 1
  /\ UNCHANGED <<tables, request, failures, history, faults>>

Step(r) ==
  \/ ReadPending(r) \/ ReadIssuedCertificate(r) \/ ReturnIssued(r)
  \/ ReadOrgPki(r) \/ MakeOrgPki(r) \/ CommitClaim(r) \/ RegisterDevice(r)

Next ==
  \/ \E d \in Devices : MintPairingCode(d) \/ CancelPairing(d) \/ RevokeDevice(d)
  \/ \E r \in Requests, c \in Codes, k \in Keys : Claim(r, c, k)
  \/ \E r \in Requests : Step(r) \/ Fail(r)
  \/ Restart
  \/ Tick

Spec == Init /\ [][Next]_vars

-----------------------------------------------------------------------------
(* Properties.                                                             *)

(* Whatever claims race, are lost and made again: a certificate goes to    *)
(* the key it certifies, no device has two keys, all are of one issuer,    *)
(* which the answer names, and the registry holds the same ("first claim   *)
(* to commit wins", pairing.ts:522; one issuer, or the branch LAN never    *)
(* forms, pairing.ts:314).                                                 *)
OneKeyPerDevice ==
  \A h \in handed :
    LET c == h.certificate IN
      /\ h.to = c.key
      /\ c.issuer = issuer /\ h.under = issuer
      /\ registry[c.device] # NoRow
      /\ registry[c.device].key = c.key /\ registry[c.device].issuer = c.issuer

(* A cancelled code never becomes a device, also when a claim had read its *)
(* row before (cancelPairing: "destroys a credential nobody holds").  A    *)
(* code drawn a second time while such a claim is under way breaks this.   *)
CancelIsFinal == \A d \in cancelled : registry[d] = NoRow

(* "A dropped response is a retry, not a burned device" (pairing.ts:479):  *)
(* a key is not told that what it has claimed itself is claimed, unless    *)
(* the device is revoked.  The code does not bear it out: a claim that     *)
(* ends between its update and its insert leaves a row nobody can use.     *)
RetriesAreServed ==
  [][\A r \in Requests :
       request[r].at = "issued" /\ request'[r].at = "already_claimed"
         => registry[request[r].device] # NoRow]_vars

=============================================================================
