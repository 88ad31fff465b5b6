--------------------------- MODULE PairingProofs ---------------------------
(***************************************************************************)
(* For every set of codes, devices, keys and claims, whatever fails: a     *)
(* device has one key and one issuer, and a cancelled code never becomes a *)
(* device as long as no draw repeats an earlier one.                       *)
(***************************************************************************)
EXTENDS Pairing, TLAPS

Certificates == [device : Devices, key : Keys, issuer : Requests]
PairingRows == [device : Devices, expires : Nat, key : Keys \cup {NoKey}]
RegistryRows == [key : Keys, issuer : Requests, revoked : BOOLEAN]

Reading == [at : {"read"}, code : Codes, key : Keys, now : Nat]
Found == [at : {"issued", "issuer", "make issuer"}, code : Codes, key : Keys, now : Nat,
          device : Devices]
Signing == [at : {"claim", "register"}, code : Codes, key : Keys, now : Nat, device : Devices,
            issuer : Requests]
Returning == [at : {"return"}, key : Keys, now : Nat, certificate : Certificates]
Over == [at : {"idle"} \cup Ended]
Shape == Over \cup Reading \cup Found \cup Signing \cup Returning

Types ==
  /\ now \in Nat
  /\ minted \subseteq [code : Codes, device : Devices]
  /\ pairing \in [Codes -> PairingRows \cup {NoRow}]
  /\ registry \in [Devices -> RegistryRows \cup {NoRow}]
  /\ issuer \in Requests \cup {NoIssuer}
  /\ request \in [Requests -> Shape]
  /\ handed \subseteq [to : Keys, certificate : Certificates, under : Requests]
  /\ cancelled \subseteq Devices

Drawn(c, d) == [code |-> c, device |-> d] \in minted

(* A device id is drawn once; so is a code, if draws do not repeat.        *)
DrawsAreOnce ==
  \A p, q \in minted : p.device = q.device \/ (~Repeats /\ p.code = q.code) => p = q

(* Rows, claims, registered and cancelled devices stem from draws.         *)
AllIsDrawn ==
  /\ \A c \in Codes : pairing[c] # NoRow => Drawn(c, pairing[c].device)
  /\ \A r \in Requests :
       request[r].at \in {"issued", "issuer", "make issuer", "claim", "register"}
         => Drawn(request[r].code, request[r].device)
  /\ \A d \in Devices : registry[d] # NoRow \/ d \in cancelled => \E c \in Codes : Drawn(c, d)

OneIssuer ==
  /\ \A d \in Devices : registry[d] # NoRow => registry[d].issuer = issuer
  /\ \A r \in Requests : request[r].at \in {"claim", "register"} => request[r].issuer = issuer

(* A claim that found its key on a row has that row, and one that won its  *)
(* update has a claimed row at its code, which is its own if it is its     *)
(* device's.                                                               *)
ClaimHolds(r) ==
  LET q == request[r]
      row == pairing[q.code]
  IN  /\ q.at = "issued" => row # NoRow /\ row.device = q.device /\ row.key = q.key
      /\ q.at = "register" =>
           row # NoRow /\ row.key # NoKey /\ (row.device = q.device => row.key = q.key)
ClaimedHold == \A r \in Requests : ClaimHolds(r)

RegistryFollowsRows ==
  \A d \in Devices, c \in Codes :
    registry[d] # NoRow /\ pairing[c] # NoRow /\ pairing[c].device = d
      => pairing[c].key = registry[d].key

Held(c) ==
  registry[c.device] # NoRow /\ registry[c.device].key = c.key
  /\ registry[c.device].issuer = c.issuer

ReturnIsOwed(r) ==
  request[r].at = "return" =>
    request[r].certificate.key = request[r].key /\ Held(request[r].certificate)
ReturnsAreOwed == \A r \in Requests : ReturnIsOwed(r)

CancelledHaveNoRow ==
  \A d \in cancelled, c \in Codes : pairing[c] # NoRow => pairing[c].device # d

IInv ==
  /\ Types /\ DrawsAreOnce /\ AllIsDrawn /\ OneIssuer /\ ClaimedHold
  /\ RegistryFollowsRows /\ ReturnsAreOwed /\ CancelledHaveNoRow
  /\ OneKeyPerDevice /\ (~Repeats => CancelIsFinal)


(* Where a claim is tells what it has.                                     *)
LEMMA Shapes ==
  ASSUME Types, NEW r \in Requests
  PROVE  /\ request[r].at = "read" => request[r] \in Reading
         /\ request[r].at \in {"issued", "issuer", "make issuer"} => request[r] \in Found
         /\ request[r].at \in {"claim", "register"} => request[r] \in Signing
         /\ request[r].at = "return" => request[r] \in Returning
  BY DEF Types, Shape, Over, Ended, Refusals, Reading, Found, Signing, Returning

(* A claim that moves to a record of a right shape keeps the type.         *)
LEMMA Moves ==
  ASSUME Types, NEW r \in Requests, NEW q \in Shape, request' = [request EXCEPT ![r] = q]
  PROVE  request' \in [Requests -> Shape]
  BY DEF Types

LEMMA KeepsTypes ==
  ASSUME IInv, [Next]_vars
  PROVE  Types'
<1> USE DEF IInv
<1>1. ASSUME NEW d \in Devices, MintPairingCode(d) PROVE Types'
  <2>1. PICK c \in Codes :
          /\ pairing' = [pairing EXCEPT ![c] = [device |-> d, expires |-> now + Ttl, key |-> NoKey]]
          /\ minted' = minted \cup {[code |-> c, device |-> d]}
    BY <1>1 DEF MintPairingCode
  <2>2. [device |-> d, expires |-> now + Ttl, key |-> NoKey] \in PairingRows
    BY PairingAssumption DEF Types, PairingRows
  <2> QED
    BY <1>1, <2>1, <2>2 DEF MintPairingCode, Types, history
<1>2. ASSUME NEW d \in Devices, CancelPairing(d) PROVE Types'
  BY <1>2 DEF CancelPairing, Types
<1>3. ASSUME NEW d \in Devices, RevokeDevice(d) PROVE Types'
  <2>1. [registry[d] EXCEPT !.revoked = TRUE] \in RegistryRows
    BY <1>3 DEF RevokeDevice, Types, RegistryRows
  <2> QED
    BY <1>3, <2>1 DEF RevokeDevice, Types, history
<1>4. ASSUME NEW r \in Requests, NEW c \in Codes, NEW k \in Keys, Claim(r, c, k) PROVE Types'
  <2>1. PICK q \in Shape : request' = [request EXCEPT ![r] = q]
    BY <1>4 DEF Claim, Enter, Shape, Over, Ended, Refusals, Reading, Types
  <2> QED
    BY <1>4, <2>1, Moves DEF Claim, Types, Shape, tables, history
<1>5. ASSUME NEW r \in Requests, ReadPending(r) PROVE Types'
  <2>1. request[r] \in Reading
    BY <1>5, Shapes DEF ReadPending
  <2>2. PICK q \in Shape : request' = [request EXCEPT ![r] = q]
    <3> DEFINE row == pairing[request[r].code]
               verdict == Verdict(row, request[r].key, request[r].now)
    <3>1. CASE verdict \in Refusals
      BY <1>5, <3>1 DEF ReadPending, Refuse, Shape, Over, Ended
    <3>2. CASE verdict \notin Refusals
      <4>1. row \in PairingRows /\ verdict \in {"issued", "issuer"}
        BY <3>2, <2>1 DEF Verdict, Refusals, Types, Reading
      <4>2. request' = [request EXCEPT ![r] =
              [at |-> verdict, code |-> request[r].code, key |-> request[r].key,
               now |-> request[r].now, device |-> row.device]]
        BY <1>5, <3>2 DEF ReadPending, Types
      <4>3. [at |-> verdict, code |-> request[r].code, key |-> request[r].key,
             now |-> request[r].now, device |-> row.device] \in Shape
        BY <4>1, <2>1 DEF Shape, Found, Reading, PairingRows
      <4> QED
        BY <4>2, <4>3
    <3> QED
      BY <3>1, <3>2
  <2> QED
    BY <1>5, <2>2, Moves DEF ReadPending, Types, Shape, tables, history
<1>6. ASSUME NEW r \in Requests, ReadIssuedCertificate(r) PROVE Types'
  <2>1. request[r] \in Found
    BY <1>6, Shapes DEF ReadIssuedCertificate
  <2>2. PICK q \in Shape : request' = [request EXCEPT ![r] = q]
    <3> DEFINE row == registry[request[r].device]
    <3>1. CASE row = NoRow \/ row.revoked
      BY <1>6, <3>1 DEF ReadIssuedCertificate, Refuse, Shape, Over, Ended, Refusals
    <3>2. CASE ~(row = NoRow \/ row.revoked)
      <4>1. row \in RegistryRows
        BY <3>2, <2>1 DEF Types, Found
      <4>2. request' = [request EXCEPT ![r] =
              [at |-> "return", key |-> request[r].key, now |-> request[r].now,
               certificate |-> [device |-> request[r].device, key |-> row.key,
                                issuer |-> row.issuer]]]
        BY <1>6, <3>2 DEF ReadIssuedCertificate, Types
      <4>3. [at |-> "return", key |-> request[r].key, now |-> request[r].now,
             certificate |-> [device |-> request[r].device, key |-> row.key,
                              issuer |-> row.issuer]] \in Shape
        BY <4>1, <2>1 DEF Shape, Found, Returning, Certificates, RegistryRows
      <4> QED
        BY <4>2, <4>3
    <3> QED
      BY <3>1, <3>2
  <2> QED
    BY <1>6, <2>2, Moves DEF ReadIssuedCertificate, Types, Shape, tables, history
<1>7. ASSUME NEW r \in Requests, ReturnIssued(r) PROVE Types'
  <2>1. request[r] \in Returning
    BY <1>7, Shapes DEF ReturnIssued
  <2>2. request[r].certificate \in Certificates /\ request[r].key \in Keys
    BY <2>1 DEF Returning
  <2>3. issuer \in Requests
    BY <1>7, <2>2, PairingAssumption
       DEF ReturnIssued, ReturnsAreOwed, ReturnIsOwed, Held, OneIssuer, Types, RegistryRows,
           Certificates
  <2>4. Handed(request[r].key, request[r].certificate)
          \in [to : Keys, certificate : Certificates, under : Requests]
    BY <2>2, <2>3 DEF Handed
  <2>5. [at |-> "granted"] \in Shape
    BY DEF Shape, Over, Ended
  <2> QED
    BY <1>7, <2>4, <2>5, Moves DEF ReturnIssued, Types, Shape, tables
<1>8. ASSUME NEW r \in Requests, ReadOrgPki(r) PROVE Types'
  <2>1. request[r] \in Found
    BY <1>8, Shapes DEF ReadOrgPki
  <2>2. PICK q \in Shape : request' = [request EXCEPT ![r] = q]
    <3>1. CASE issuer # NoIssuer
      BY <1>8, <2>1, <3>1 DEF ReadOrgPki, Signed, Shape, Signing, Found, Types
    <3>2. CASE issuer = NoIssuer
      BY <1>8, <2>1, <3>2 DEF ReadOrgPki, Shape, Found, Types
    <3> QED
      BY <3>1, <3>2
  <2> QED
    BY <1>8, <2>2, Moves DEF ReadOrgPki, Types, Shape, tables, history
<1>9. ASSUME NEW r \in Requests, MakeOrgPki(r) PROVE Types'
  <2>1. request[r] \in Found
    BY <1>9, Shapes DEF MakeOrgPki
  <2>2. issuer' \in Requests
    BY <1>9 DEF MakeOrgPki, Types
  <2>3. PICK q \in Shape : request' = [request EXCEPT ![r] = q]
    BY <1>9, <2>1, <2>2 DEF MakeOrgPki, Signed, Shape, Signing, Found, Types
  <2> QED
    BY <1>9, <2>2, <2>3, Moves DEF MakeOrgPki, Types, Shape, history
<1>10. ASSUME NEW r \in Requests, CommitClaim(r) PROVE Types'
  <2>1. request[r] \in Signing
    BY <1>10, Shapes DEF CommitClaim
  <2>2. CASE Claimable(pairing[request[r].code])
    <3>1. [pairing[request[r].code] EXCEPT !.key = request[r].key] \in PairingRows
      BY <2>1, <2>2 DEF Claimable, Types, PairingRows, Signing
    <3>2. [request[r] EXCEPT !.at = "register"] \in Shape
      BY <2>1 DEF Shape, Signing
    <3> QED
      BY <1>10, <2>2, <3>1, <3>2, Moves DEF CommitClaim, Types, Shape, history
  <2>3. CASE ~Claimable(pairing[request[r].code])
    <3>1. PICK q \in Shape : request' = [request EXCEPT ![r] = q]
      BY <1>10, <2>1, <2>3
         DEF CommitClaim, Enter, Shape, Over, Ended, Refusals, Reading, Signing
    <3> QED
      BY <1>10, <2>3, <3>1, Moves DEF CommitClaim, Types, Shape, history
  <2> QED
    BY <2>2, <2>3
<1>11. ASSUME NEW r \in Requests, RegisterDevice(r) PROVE Types'
  <2>1. request[r] \in Signing
    BY <1>11, Shapes DEF RegisterDevice
  <2>2. PICK q \in Shape : request' = [request EXCEPT ![r] = q]
    BY <1>11 DEF RegisterDevice, Shape, Over, Ended, Refusals
  <2>3. CASE registry[request[r].device] = NoRow
    <3>1. [key |-> request[r].key, issuer |-> request[r].issuer, revoked |-> FALSE] \in RegistryRows
      BY <2>1 DEF Signing, RegistryRows
    <3>2. issuer = request[r].issuer
      BY <1>11 DEF RegisterDevice, OneIssuer
    <3>3. Handed(request[r].key, [device |-> request[r].device, key |-> request[r].key,
                                  issuer |-> request[r].issuer])
            \in [to : Keys, certificate : Certificates, under : Requests]
      BY <2>1, <3>2 DEF Handed, Certificates, Signing
    <3> QED
      BY <1>11, <2>2, <2>3, <3>1, <3>3, Moves DEF RegisterDevice, Types, Shape
  <2>4. CASE registry[request[r].device] # NoRow
    BY <1>11, <2>2, <2>4, Moves DEF RegisterDevice, Types, Shape
  <2> QED
    BY <2>3, <2>4
<1>12. ASSUME NEW r \in Requests, Fail(r) PROVE Types'
  <2>1. [at |-> "unavailable"] \in Shape
    BY DEF Shape, Over, Ended, Refusals
  <2> QED
    BY <1>12, <2>1, Moves DEF Fail, Types, Shape, tables, history
<1>13. CASE Restart
  <2>1. [at |-> "lost"] \in Shape
    BY DEF Shape, Over, Ended
  <2> QED
    BY <1>13, <2>1 DEF Restart, Types, Shape, tables, history
<1>14. CASE Tick
  BY <1>14 DEF Tick, Types, tables, history
<1>15. CASE UNCHANGED vars
  BY <1>15 DEF vars, tables, history, Types
<1> QED
  BY <1>1, <1>2, <1>3, <1>4, <1>5, <1>6, <1>7, <1>8, <1>9, <1>10, <1>11, <1>12, <1>13, <1>14,
     <1>15 DEF Next, Step

(* What the types say of the fields the invariants compare.                *)
Fields ==
  /\ \A r \in Requests :
       /\ request[r].at \in {"issued", "issuer", "make issuer", "claim", "register"} =>
            request[r].code \in Codes /\ request[r].device \in Devices /\ request[r].key # NoKey
       /\ request[r].at \in {"claim", "register"} => request[r].issuer # NoIssuer
       /\ request[r].at = "return" => request[r].certificate.device \in Devices
  /\ \A c \in Codes : pairing[c] # NoRow => pairing[c].device \in Devices
  /\ \A d \in Devices : registry[d] # NoRow =>
       registry[d].issuer # NoIssuer /\ registry[d].key # NoKey
  /\ \A h \in handed : h.certificate.device \in Devices /\ h.under # NoIssuer
  /\ cancelled \subseteq Devices

LEMMA TypesGiveFields ==
  ASSUME Types PROVE Fields
<1>1. ASSUME NEW r \in Requests,
             request[r].at \in {"issued", "issuer", "make issuer", "claim", "register"}
      PROVE  request[r].code \in Codes /\ request[r].device \in Devices /\ request[r].key # NoKey
  <2>1. request[r] \in Found \/ request[r] \in Signing
    BY <1>1, Shapes
  <2> QED
    BY <2>1, PairingAssumption DEF Found, Signing
<1>2. ASSUME NEW r \in Requests, request[r].at \in {"claim", "register"}
      PROVE  request[r].issuer # NoIssuer
  <2>1. request[r] \in Signing
    BY <1>2, Shapes
  <2> QED
    BY <2>1, PairingAssumption DEF Signing
<1>3. ASSUME NEW r \in Requests, request[r].at = "return"
      PROVE  request[r].certificate.device \in Devices
  <2>1. request[r] \in Returning
    BY <1>3, Shapes
  <2> QED
    BY <2>1 DEF Returning, Certificates
<1>4. /\ \A c \in Codes : pairing[c] # NoRow => pairing[c].device \in Devices
      /\ \A d \in Devices : registry[d] # NoRow =>
           registry[d].issuer # NoIssuer /\ registry[d].key # NoKey
  BY PairingAssumption DEF Types, PairingRows, RegistryRows
<1>5. /\ \A h \in handed : h.certificate.device \in Devices /\ h.under # NoIssuer
      /\ cancelled \subseteq Devices
  BY PairingAssumption DEF Types, Certificates
<1> QED
  BY <1>1, <1>2, <1>3, <1>4, <1>5 DEF Fields

-----------------------------------------------------------------------------
(* What the longer actions do, field by field.                             *)
Others(r) == \A s \in Requests \ {r} : request'[s] = request[s]

MintDoes(d) ==
  \E c \in Codes :
    /\ pairing[c] = NoRow /\ pairing'[c] # NoRow
    /\ pairing'[c].device = d /\ pairing'[c].key = NoKey
    /\ \A b \in Codes \ {c} : pairing'[b] = pairing[b]
    /\ minted' = minted \cup {[code |-> c, device |-> d]}
    /\ \A p \in minted : p.device # d /\ (~Repeats => p.code # c)
    /\ UNCHANGED <<registry, issuer, request, handed, cancelled>>

LEMMA MintEffect ==
  ASSUME Types, NEW d \in Devices, MintPairingCode(d)
  PROVE  MintDoes(d)
<1> USE DEF MintDoes
<1>1. PICK c \in Codes :
        /\ pairing[c] = NoRow
        /\ Repeats \/ \A p \in minted : p.code # c
        /\ pairing' = [pairing EXCEPT ![c] = [device |-> d, expires |-> now + Ttl, key |-> NoKey]]
        /\ minted' = minted \cup {[code |-> c, device |-> d]}
  BY DEF MintPairingCode
<1>2. [device |-> d, expires |-> now + Ttl, key |-> NoKey]
        \in [device : Devices, expires : Nat, key : Keys \cup {NoKey}]
  BY PairingAssumption DEF Types
<1>3. pairing'[c] # NoRow
  BY <1>1, <1>2, PairingAssumption DEF Types
<1> QED
  BY <1>1, <1>3 DEF MintPairingCode, Types, history

CancelDoes(d) ==
  /\ \A c \in Codes :
       IF pairing[c] # NoRow /\ pairing[c].device = d /\ pairing[c].key = NoKey
       THEN pairing'[c] = NoRow ELSE pairing'[c] = pairing[c]
  /\ \E c \in Codes : pairing[c] # NoRow /\ pairing[c].device = d /\ pairing[c].key = NoKey
  /\ cancelled' = cancelled \cup {d}
  /\ UNCHANGED <<minted, registry, issuer, request, handed>>

LEMMA CancelEffect ==
  ASSUME Types, NEW d \in Devices, CancelPairing(d)
  PROVE  CancelDoes(d)
  BY DEF CancelDoes, CancelPairing, Waiting, Types

RevokeDoes(d) ==
  /\ \A e \in Devices :
       IF registry[e] = NoRow THEN registry'[e] = NoRow
       ELSE registry'[e] # NoRow /\ registry'[e].key = registry[e].key
            /\ registry'[e].issuer = registry[e].issuer
  /\ UNCHANGED <<minted, pairing, issuer, request, handed, cancelled>>

LEMMA RevokeEffect ==
  ASSUME Types, NEW d \in Devices, RevokeDevice(d)
  PROVE  RevokeDoes(d)
<1> USE DEF RevokeDoes
<1>1. [registry[d] EXCEPT !.revoked = TRUE] \in [key : Keys, issuer : Requests, revoked : BOOLEAN]
  BY DEF RevokeDevice, Types, RegistryRows
<1>2. [registry[d] EXCEPT !.revoked = TRUE] # NoRow
  BY <1>1, PairingAssumption
<1>3. /\ [registry[d] EXCEPT !.revoked = TRUE].key = registry[d].key
      /\ [registry[d] EXCEPT !.revoked = TRUE].issuer = registry[d].issuer
  BY DEF RevokeDevice, Types, RegistryRows
<1> QED
  BY <1>2, <1>3 DEF RevokeDevice, Types, history

ReadDoes(r) ==
  /\ Others(r) /\ UNCHANGED <<tables, history>>
  /\ \/ request'[r].at \in Refusals
     \/ LET row == pairing[request[r].code] IN
          /\ request[r].code \in Codes /\ row # NoRow
          /\ request'[r].code = request[r].code /\ request'[r].device = row.device
          /\ request'[r].key = request[r].key
          /\ \/ request'[r].at = "issued" /\ row.key = request[r].key
             \/ request'[r].at = "issuer"

LEMMA ReadEffect ==
  ASSUME Types, NEW r \in Requests, ReadPending(r)
  PROVE  ReadDoes(r)
<1> USE DEF ReadDoes
<1>1. request[r] \in Reading
  BY Shapes DEF ReadPending
<1> DEFINE row == pairing[request[r].code]
           verdict == Verdict(row, request[r].key, request[r].now)
<1>2. CASE verdict \in Refusals
  BY <1>2 DEF ReadPending, Refuse, Types, Others
<1>3. CASE verdict \notin Refusals
  <2>1. /\ row # NoRow
        /\ \/ verdict = "issued" /\ row.key = request[r].key
           \/ verdict = "issuer"
    BY <1>3 DEF Verdict, Refusals
  <2>2. /\ request'[r] = [at |-> verdict, code |-> request[r].code, key |-> request[r].key,
                          now |-> request[r].now, device |-> row.device]
        /\ Others(r) /\ UNCHANGED <<tables, history>>
    BY <1>3 DEF ReadPending, Types, Others
  <2> QED
    BY <1>1, <2>1, <2>2 DEF Reading
<1> QED
  BY <1>2, <1>3

IssuedDoes(r) ==
  /\ Others(r) /\ UNCHANGED <<tables, history>>
  /\ request[r].device \in Devices /\ request[r].at = "issued"
  /\ \/ request'[r].at = "already_claimed"
     \/ LET row == registry[request[r].device] IN
          /\ row # NoRow
          /\ request'[r].at = "return" /\ request'[r].key = request[r].key
          /\ request'[r].certificate =
               [device |-> request[r].device, key |-> row.key, issuer |-> row.issuer]

LEMMA IssuedEffect ==
  ASSUME Types, NEW r \in Requests, ReadIssuedCertificate(r)
  PROVE  IssuedDoes(r)
<1> USE DEF IssuedDoes
<1>1. request[r] \in Found
  BY Shapes DEF ReadIssuedCertificate
<1> DEFINE row == registry[request[r].device]
<1>2. CASE row = NoRow \/ row.revoked
  <2>1. request' = [request EXCEPT ![r] = [at |-> "already_claimed"]]
    BY <1>2 DEF ReadIssuedCertificate, Refuse
  <2> QED
    BY <1>1, <2>1 DEF ReadIssuedCertificate, Types, Others, Found
<1>3. CASE ~(row = NoRow \/ row.revoked)
  <2>1. request' = [request EXCEPT ![r] =
          [at |-> "return", key |-> request[r].key, now |-> request[r].now,
           certificate |-> [device |-> request[r].device, key |-> row.key,
                            issuer |-> row.issuer]]]
    BY <1>3 DEF ReadIssuedCertificate, Types
  <2> QED
    BY <1>1, <1>3, <2>1 DEF ReadIssuedCertificate, Types, Others, Found
<1> QED
  BY <1>2, <1>3

IssuerDoes(r) ==
  /\ Others(r) /\ UNCHANGED <<minted, pairing, registry, history>>
  /\ request[r].at \in {"issuer", "make issuer"}
  /\ request'[r].at \in {"make issuer", "claim"}
  /\ request'[r].code = request[r].code /\ request'[r].device = request[r].device
  /\ request'[r].key = request[r].key
  /\ request'[r].at = "claim" => request'[r].issuer = issuer'
  /\ issuer # NoIssuer => issuer' = issuer

LEMMA IssuerEffect ==
  ASSUME Types, NEW r \in Requests, ReadOrgPki(r) \/ MakeOrgPki(r)
  PROVE  IssuerDoes(r)
<1> USE DEF IssuerDoes
<1>1. request[r] \in Found
  BY Shapes DEF ReadOrgPki, MakeOrgPki
<1>2. CASE ReadOrgPki(r)
  <2>1. CASE issuer = NoIssuer
    BY <1>1, <1>2, <2>1, ZenonT(60) DEF ReadOrgPki, Types, Others, tables, Found
  <2>2. CASE issuer # NoIssuer
    <3>1. request' = [request EXCEPT ![r] =
            [at |-> "claim", code |-> request[r].code, key |-> request[r].key,
             now |-> request[r].now, device |-> request[r].device, issuer |-> issuer]]
      BY <1>2, <2>2 DEF ReadOrgPki, Signed, Types
    <3> QED
      BY <1>1, <1>2, <3>1 DEF ReadOrgPki, Types, Others, tables, Found
  <2> QED
    BY <2>1, <2>2
<1>3. CASE MakeOrgPki(r)
  BY <1>1, <1>3 DEF MakeOrgPki, Signed, Types, Others, Found
<1> QED
  BY <1>2, <1>3

CommitDoes(r) ==
  LET q == request[r] IN
  /\ Others(r) /\ UNCHANGED <<minted, registry, issuer, history>>
  /\ q.at = "claim" /\ q.code \in Codes /\ q.key \in Keys
  /\ \/ /\ request'[r].at \in {"read", "rate_limited"}
        /\ UNCHANGED pairing
     \/ /\ pairing[q.code] # NoRow /\ pairing[q.code].key = NoKey
        /\ pairing'[q.code] # NoRow /\ pairing'[q.code].key = q.key
        /\ pairing'[q.code].device = pairing[q.code].device
        /\ \A c \in Codes \ {q.code} : pairing'[c] = pairing[c]
        /\ request'[r].at = "register" /\ request'[r].code = q.code
        /\ request'[r].device = q.device /\ request'[r].key = q.key
        /\ request'[r].issuer = q.issuer

LEMMA CommitEffect ==
  ASSUME Types, NEW r \in Requests, CommitClaim(r)
  PROVE  CommitDoes(r)
<1> USE DEF CommitDoes
<1>1. request[r] \in Signing
  BY Shapes DEF CommitClaim
<1> DEFINE q == request[r]
<1>2. CASE Claimable(pairing[q.code])
  <2>1. [pairing[q.code] EXCEPT !.key = q.key]
          \in [device : Devices, expires : Nat, key : Keys \cup {NoKey}]
    BY <1>1, <1>2 DEF Claimable, Types, PairingRows, Signing
  <2>2. [pairing[q.code] EXCEPT !.key = q.key] # NoRow
    BY <2>1, PairingAssumption
  <2>3. /\ [pairing[q.code] EXCEPT !.key = q.key].key = q.key
        /\ [pairing[q.code] EXCEPT !.key = q.key].device = pairing[q.code].device
    BY <1>1, <1>2 DEF Claimable, Types, PairingRows, Signing
  <2>4. /\ pairing' = [pairing EXCEPT ![q.code] = [pairing[q.code] EXCEPT !.key = q.key]]
        /\ request' = [request EXCEPT ![r] = [q EXCEPT !.at = "register"]]
    BY <1>2 DEF CommitClaim, Types
  <2> QED
    BY <1>1, <1>2, <2>2, <2>3, <2>4 DEF CommitClaim, Claimable, Types, Others, Signing
<1>3. CASE ~Claimable(pairing[q.code])
  BY <1>1, <1>3 DEF CommitClaim, Enter, Types, Others, Signing
<1> QED
  BY <1>2, <1>3

RegisterDoes(r) ==
  LET q == request[r] IN
  /\ Others(r) /\ UNCHANGED <<minted, pairing, issuer, cancelled>>
  /\ q.at = "register" /\ q.device \in Devices /\ q.code \in Codes
  /\ \/ request'[r].at = "unavailable" /\ UNCHANGED <<registry, handed>>
     \/ /\ request'[r].at = "granted" /\ registry[q.device] = NoRow
        /\ registry'[q.device] # NoRow
        /\ registry'[q.device].key = q.key /\ registry'[q.device].issuer = q.issuer
        /\ \A d \in Devices \ {q.device} : registry'[d] = registry[d]
        /\ handed' = handed \cup
             {[to |-> q.key, under |-> issuer,
               certificate |-> [device |-> q.device, key |-> q.key, issuer |-> q.issuer]]}

LEMMA RegisterEffect ==
  ASSUME Types, NEW r \in Requests, RegisterDevice(r)
  PROVE  RegisterDoes(r)
<1> USE DEF RegisterDoes
<1>1. request[r] \in Signing
  BY Shapes DEF RegisterDevice
<1> DEFINE q == request[r]
           new == [key |-> q.key, issuer |-> q.issuer, revoked |-> FALSE]
<1>2. new \in [key : Keys, issuer : Requests, revoked : BOOLEAN]
  BY <1>1 DEF Signing
<1>3. new # NoRow
  BY <1>2, PairingAssumption
<1> HIDE DEF new
<1>4. CASE registry[q.device] = NoRow
  <2>1. /\ registry' = [registry EXCEPT ![q.device] = new]
        /\ handed' = handed \cup
             {[to |-> q.key, under |-> issuer,
               certificate |-> [device |-> q.device, key |-> q.key, issuer |-> q.issuer]]}
        /\ request' = [request EXCEPT ![r] = [at |-> "granted"]]
    BY <1>4 DEF RegisterDevice, Handed, new
  <2>2. new.key = q.key /\ new.issuer = q.issuer
    BY DEF new
  <2> QED
    BY <1>1, <1>3, <1>4, <2>1, <2>2 DEF RegisterDevice, Types, Others, Signing
<1>5. CASE registry[q.device] # NoRow
  BY <1>1, <1>5 DEF RegisterDevice, Types, Others, Signing
<1> QED
  BY <1>4, <1>5


-----------------------------------------------------------------------------
(* What a step has to leave alone for what is known of a claim to stay.    *)
KeyedRowsStay ==
  \A c \in Codes : pairing[c] # NoRow /\ pairing[c].key # NoKey => pairing'[c] = pairing[c]
RegisteredStay ==
  \A d \in Devices : registry[d] # NoRow =>
    registry'[d] # NoRow /\ registry'[d].key = registry[d].key
      /\ registry'[d].issuer = registry[d].issuer

LEMMA ClaimStays ==
  ASSUME Fields, NEW s \in Requests, ClaimHolds(s), request'[s] = request[s], KeyedRowsStay
  PROVE  ClaimHolds(s)'
<1>1. CASE request[s].at \in {"issued", "register"}
  <2>1. /\ request[s].code \in Codes /\ pairing[request[s].code] # NoRow
        /\ pairing[request[s].code].key # NoKey
    BY <1>1 DEF Fields, ClaimHolds
  <2>2. pairing'[request[s].code] = pairing[request[s].code]
    BY <2>1 DEF KeyedRowsStay
  <2> QED
    BY <1>1, <2>1, <2>2 DEF ClaimHolds
<1>2. CASE request[s].at \notin {"issued", "register"}
  BY <1>2 DEF ClaimHolds
<1> QED
  BY <1>1, <1>2

LEMMA ReturnStays ==
  ASSUME Fields, NEW s \in Requests, ReturnIsOwed(s), request'[s] = request[s], RegisteredStay
  PROVE  ReturnIsOwed(s)'
<1>1. CASE request[s].at = "return"
  <2>1. request[s].certificate.device \in Devices /\ Held(request[s].certificate)
    BY <1>1 DEF Fields, ReturnIsOwed
  <2>2. /\ registry'[request[s].certificate.device] # NoRow
        /\ registry'[request[s].certificate.device].key = request[s].certificate.key
        /\ registry'[request[s].certificate.device].issuer = request[s].certificate.issuer
    BY <2>1 DEF RegisteredStay, Held
  <2> QED
    BY <1>1, <2>2 DEF ReturnIsOwed, Held
<1>2. CASE request[s].at # "return"
  BY <1>2 DEF ReturnIsOwed
<1> QED
  BY <1>1, <1>2

(* Codes drawn for one device are one code, and without repeats the other  *)
(* way round.                                                              *)
LEMMA DrawnOnce ==
  ASSUME DrawsAreOnce, NEW b \in Codes, NEW c \in Codes, NEW d \in Devices, NEW e \in Devices,
         Drawn(b, d), Drawn(c, e)
  PROVE  (d = e => b = c) /\ (~Repeats /\ b = c => d = e)
<1> DEFINE p == [code |-> b, device |-> d]
           q == [code |-> c, device |-> e]
<1>1. p \in minted /\ q \in minted
  BY DEF Drawn
<1>2. p.device = q.device \/ (~Repeats /\ p.code = q.code) => p = q
  BY <1>1 DEF DrawsAreOnce
<1>3. p.code = b /\ p.device = d /\ q.code = c /\ q.device = e
  OBVIOUS
<1> HIDE DEF p, q
<1> QED
  BY <1>2, <1>3

-----------------------------------------------------------------------------
LEMMA Inductive == IInv /\ [Next]_vars => IInv'
<1> SUFFICES ASSUME IInv, [Next]_vars PROVE IInv'
  OBVIOUS
<1>0. Types /\ Types'
  BY KeepsTypes DEF IInv
<1>f. Fields
  BY <1>0, TypesGiveFields
<1>1. ASSUME NEW d \in Devices, MintPairingCode(d) PROVE IInv'
  <2>1. MintDoes(d)
    BY <1>0, <1>1, MintEffect
  <2>2. DrawsAreOnce'
    BY <2>1 DEF IInv, DrawsAreOnce, MintDoes
  <2>3. AllIsDrawn'
    BY <2>1 DEF IInv, AllIsDrawn, Drawn, MintDoes
  <2>4. OneIssuer'
    BY <2>1 DEF IInv, OneIssuer, MintDoes
  <2>5. ClaimedHold'
    <3>1. KeyedRowsStay /\ UNCHANGED request
      BY <2>1 DEF MintDoes, KeyedRowsStay
    <3> QED
      BY <1>f, <3>1, ClaimStays DEF IInv, ClaimedHold
  <2>6. RegistryFollowsRows'
    <3>1. registry[d] = NoRow
      <4> SUFFICES ASSUME registry[d] # NoRow PROVE FALSE
        OBVIOUS
      <4>1. PICK b \in Codes : Drawn(b, d)
        BY DEF IInv, AllIsDrawn
      <4>2. [code |-> b, device |-> d].device # d
        BY <2>1, <4>1 DEF MintDoes, Drawn
      <4> QED
        BY <4>2
    <3> QED
      BY <2>1, <3>1 DEF IInv, RegistryFollowsRows, MintDoes
  <2>7. ReturnsAreOwed'
    BY <2>1 DEF IInv, ReturnsAreOwed, ReturnIsOwed, Held, MintDoes
  <2>8. CancelledHaveNoRow'
    BY <1>f, <2>1 DEF IInv, Fields, CancelledHaveNoRow, AllIsDrawn, Drawn, MintDoes
  <2>9. OneKeyPerDevice'
    BY <2>1 DEF IInv, OneKeyPerDevice, MintDoes
  <2>10. (~Repeats => CancelIsFinal)'
    BY <2>1 DEF IInv, CancelIsFinal, MintDoes
  <2> QED
    BY <1>0, <2>2, <2>3, <2>4, <2>5, <2>6, <2>7, <2>8, <2>9, <2>10 DEF IInv
<1>2. ASSUME NEW d \in Devices, CancelPairing(d) PROVE IInv'
  <2>1. CancelDoes(d)
    BY <1>0, <1>2, CancelEffect
  <2>2. DrawsAreOnce'
    BY <2>1 DEF IInv, DrawsAreOnce, CancelDoes
  <2>3. AllIsDrawn'
    BY <2>1 DEF IInv, AllIsDrawn, Drawn, CancelDoes
  <2>4. OneIssuer'
    BY <2>1 DEF IInv, OneIssuer, CancelDoes
  <2>5. ClaimedHold'
    <3>1. KeyedRowsStay /\ UNCHANGED request
      BY <2>1 DEF CancelDoes, KeyedRowsStay
    <3> QED
      BY <1>f, <3>1, ClaimStays DEF IInv, ClaimedHold
  <2>6. RegistryFollowsRows'
    BY <2>1 DEF IInv, RegistryFollowsRows, CancelDoes
  <2>7. ReturnsAreOwed'
    BY <2>1 DEF IInv, ReturnsAreOwed, ReturnIsOwed, Held, CancelDoes
  <2>8. CancelledHaveNoRow'
    <3> SUFFICES ASSUME NEW e \in cancelled \cup {d}, NEW c \in Codes, pairing'[c] # NoRow,
                        pairing'[c].device = e
                 PROVE  FALSE
      BY <2>1 DEF CancelledHaveNoRow, CancelDoes
    <3>1. pairing'[c] = pairing[c]
      BY <2>1 DEF CancelDoes
    <3>2. CASE e \in cancelled
      BY <3>1, <3>2 DEF IInv, CancelledHaveNoRow
    <3>3. CASE e = d
      <4>1. PICK b \in Codes : pairing[b] # NoRow /\ pairing[b].device = d /\ pairing[b].key = NoKey
        BY <2>1 DEF CancelDoes
      <4>2. Drawn(b, d) /\ Drawn(c, d)
        BY <3>1, <3>3, <4>1 DEF IInv, AllIsDrawn
      <4>3. b = c
        BY <4>2, DrawnOnce DEF IInv
      <4> QED
        BY <2>1, <4>1, <4>3 DEF CancelDoes
    <3> QED
      BY <3>2, <3>3
  <2>9. OneKeyPerDevice'
    BY <2>1 DEF IInv, OneKeyPerDevice, CancelDoes
  <2>10. (~Repeats => CancelIsFinal)'
    <3>1. registry[d] = NoRow
      <4>1. PICK b \in Codes : pairing[b] # NoRow /\ pairing[b].device = d /\ pairing[b].key = NoKey
        BY <2>1 DEF CancelDoes
      <4>2. registry[d] # NoRow => registry[d].key = NoKey
        BY <4>1 DEF IInv, RegistryFollowsRows
      <4> QED
        BY <1>f, <4>2 DEF Fields
    <3> QED
      BY <2>1, <3>1 DEF IInv, CancelIsFinal, CancelDoes
  <2> QED
    BY <1>0, <2>2, <2>3, <2>4, <2>5, <2>6, <2>7, <2>8, <2>9, <2>10 DEF IInv
<1>3. ASSUME NEW d \in Devices, RevokeDevice(d) PROVE IInv'
  <2>1. RevokeDoes(d)
    BY <1>0, <1>3, RevokeEffect
  <2>2. DrawsAreOnce'
    BY <2>1 DEF IInv, DrawsAreOnce, RevokeDoes
  <2>3. AllIsDrawn'
    BY <2>1 DEF IInv, AllIsDrawn, Drawn, RevokeDoes
  <2>4. OneIssuer'
    BY <2>1 DEF IInv, OneIssuer, RevokeDoes
  <2>5. ClaimedHold'
    BY <2>1 DEF IInv, ClaimedHold, ClaimHolds, RevokeDoes
  <2>6. RegistryFollowsRows'
    BY <2>1 DEF IInv, RegistryFollowsRows, RevokeDoes
  <2>7. ReturnsAreOwed'
    <3>1. RegisteredStay /\ UNCHANGED request
      BY <2>1 DEF RevokeDoes, RegisteredStay
    <3> QED
      BY <1>f, <3>1, ReturnStays DEF IInv, ReturnsAreOwed
  <2>8. CancelledHaveNoRow'
    BY <2>1 DEF IInv, CancelledHaveNoRow, RevokeDoes
  <2>9. OneKeyPerDevice'
    BY <1>f, <2>1 DEF IInv, Fields, OneKeyPerDevice, RevokeDoes
  <2>10. (~Repeats => CancelIsFinal)'
    BY <1>f, <2>1 DEF IInv, Fields, CancelIsFinal, RevokeDoes
  <2> QED
    BY <1>0, <2>2, <2>3, <2>4, <2>5, <2>6, <2>7, <2>8, <2>9, <2>10 DEF IInv
<1>4. ASSUME NEW r \in Requests, NEW c \in Codes, NEW k \in Keys, Claim(r, c, k) PROVE IInv'
  <2>1. DrawsAreOnce'
    BY <1>0, <1>4 DEF IInv, DrawsAreOnce, Types, Claim, Enter, tables, history
  <2>2. AllIsDrawn'
    BY <1>0, <1>4 DEF IInv, AllIsDrawn, Drawn, Types, Claim, Enter, tables, history
  <2>3. OneIssuer'
    BY <1>0, <1>4 DEF IInv, OneIssuer, Types, Claim, Enter, tables, history
  <2>4. ClaimedHold'
    BY <1>0, <1>4 DEF IInv, ClaimedHold, ClaimHolds, Types, Claim, Enter, tables, history
  <2>5. RegistryFollowsRows'
    BY <1>0, <1>4 DEF IInv, RegistryFollowsRows, Types, Claim, Enter, tables, history
  <2>6. ReturnsAreOwed'
    BY <1>0, <1>4 DEF IInv, ReturnsAreOwed, ReturnIsOwed, Held, Types, Claim, Enter, tables, history
  <2>7. CancelledHaveNoRow'
    BY <1>0, <1>4 DEF IInv, CancelledHaveNoRow, Types, Claim, Enter, tables, history
  <2>8. OneKeyPerDevice'
    BY <1>0, <1>4 DEF IInv, OneKeyPerDevice, Types, Claim, Enter, tables, history
  <2>9. (~Repeats => CancelIsFinal)'
    BY <1>0, <1>4 DEF IInv, CancelIsFinal, Types, Claim, Enter, tables, history
  <2> QED
    BY <1>0, <2>1, <2>2, <2>3, <2>4, <2>5, <2>6, <2>7, <2>8, <2>9 DEF IInv
<1>5. ASSUME NEW r \in Requests, ReadPending(r) PROVE IInv'
  <2>1. ReadDoes(r)
    BY <1>0, <1>5, ReadEffect
  <2>2. DrawsAreOnce'
    BY <2>1 DEF IInv, DrawsAreOnce, ReadDoes, Others, Refusals, tables, history
  <2>3. AllIsDrawn'
    BY <2>1 DEF IInv, AllIsDrawn, Drawn, ReadDoes, Others, Refusals, tables, history
  <2>4. OneIssuer'
    BY <2>1 DEF IInv, OneIssuer, ReadDoes, Others, Refusals, tables, history
  <2>5. ClaimedHold'
    BY <2>1 DEF IInv, ClaimedHold, ClaimHolds, ReadDoes, Others, Refusals, tables, history
  <2>6. RegistryFollowsRows'
    BY <2>1 DEF IInv, RegistryFollowsRows, ReadDoes, Others, Refusals, tables, history
  <2>7. ReturnsAreOwed'
    BY <2>1
       DEF IInv, ReturnsAreOwed, ReturnIsOwed, Held, ReadDoes, Others, Refusals, tables, history
  <2>8. CancelledHaveNoRow'
    BY <2>1 DEF IInv, CancelledHaveNoRow, ReadDoes, Others, Refusals, tables, history
  <2>9. OneKeyPerDevice'
    BY <2>1 DEF IInv, OneKeyPerDevice, ReadDoes, Others, Refusals, tables, history
  <2>10. (~Repeats => CancelIsFinal)'
    BY <2>1 DEF IInv, CancelIsFinal, ReadDoes, Others, Refusals, tables, history
  <2> QED
    BY <1>0, <2>2, <2>3, <2>4, <2>5, <2>6, <2>7, <2>8, <2>9, <2>10 DEF IInv
<1>6. ASSUME NEW r \in Requests, ReadIssuedCertificate(r) PROVE IInv'
  <2>1. IssuedDoes(r)
    BY <1>0, <1>6, IssuedEffect
  <2>2. DrawsAreOnce'
    BY <2>1 DEF IInv, DrawsAreOnce, IssuedDoes, Others, tables, history
  <2>3. AllIsDrawn'
    BY <2>1 DEF IInv, AllIsDrawn, Drawn, IssuedDoes, Others, tables, history
  <2>4. OneIssuer'
    BY <2>1 DEF IInv, OneIssuer, IssuedDoes, Others, tables, history
  <2>5. ClaimedHold'
    BY <2>1 DEF IInv, ClaimedHold, ClaimHolds, IssuedDoes, Others, tables, history
  <2>6. RegistryFollowsRows'
    BY <2>1 DEF IInv, RegistryFollowsRows, IssuedDoes, Others, tables, history
  <2>7. ReturnsAreOwed'
    <3>1. RegisteredStay /\ Others(r)
      BY <2>1 DEF IssuedDoes, RegisteredStay, tables
    <3>2. ASSUME NEW s \in Requests, s # r PROVE ReturnIsOwed(s)'
      BY <1>f, <3>1, <3>2, ReturnStays DEF IInv, ReturnsAreOwed, Others
    <3>3. ReturnIsOwed(r)'
      <4>1. CASE request'[r].at = "already_claimed"
        BY <4>1 DEF ReturnIsOwed
      <4>2. CASE request'[r].at # "already_claimed"
        <5>1. /\ request[r].code \in Codes /\ pairing[request[r].code] # NoRow
              /\ pairing[request[r].code].device = request[r].device
              /\ pairing[request[r].code].key = request[r].key
              /\ request[r].device \in Devices
          BY <1>f, <2>1 DEF IInv, Fields, IssuedDoes, ClaimedHold, ClaimHolds
        <5>2. registry[request[r].device] # NoRow
          BY <2>1, <4>2 DEF IssuedDoes
        <5>3. registry[request[r].device].key = request[r].key
          BY <5>1, <5>2 DEF IInv, RegistryFollowsRows
        <5>4. /\ UNCHANGED registry /\ request'[r].key = request[r].key
              /\ request'[r].certificate =
                   [device |-> request[r].device, key |-> registry[request[r].device].key,
                    issuer |-> registry[request[r].device].issuer]
          BY <2>1, <4>2 DEF IssuedDoes, tables
        <5>5. /\ request'[r].certificate.device = request[r].device
              /\ request'[r].certificate.key = registry[request[r].device].key
              /\ request'[r].certificate.issuer = registry[request[r].device].issuer
          BY <5>4
        <5> QED
          BY <5>2, <5>3, <5>4, <5>5 DEF ReturnIsOwed, Held
      <4> QED
        BY <4>1, <4>2
    <3> QED
      BY <3>2, <3>3 DEF ReturnsAreOwed
  <2>8. CancelledHaveNoRow'
    BY <2>1 DEF IInv, CancelledHaveNoRow, IssuedDoes, Others, tables, history
  <2>9. OneKeyPerDevice'
    BY <2>1 DEF IInv, OneKeyPerDevice, IssuedDoes, Others, tables, history
  <2>10. (~Repeats => CancelIsFinal)'
    BY <2>1 DEF IInv, CancelIsFinal, IssuedDoes, Others, tables, history
  <2> QED
    BY <1>0, <2>2, <2>3, <2>4, <2>5, <2>6, <2>7, <2>8, <2>9, <2>10 DEF IInv
<1>7. ASSUME NEW r \in Requests, ReturnIssued(r) PROVE IInv'
  <2>1. DrawsAreOnce'
    BY <1>0, <1>7 DEF IInv, DrawsAreOnce, Types, ReturnIssued, Handed, tables
  <2>2. AllIsDrawn'
    BY <1>0, <1>7 DEF IInv, AllIsDrawn, Drawn, Types, ReturnIssued, Handed, tables
  <2>3. OneIssuer'
    BY <1>0, <1>7 DEF IInv, OneIssuer, Types, ReturnIssued, Handed, tables
  <2>4. ClaimedHold'
    BY <1>0, <1>7 DEF IInv, ClaimedHold, ClaimHolds, Types, ReturnIssued, Handed, tables
  <2>5. RegistryFollowsRows'
    BY <1>0, <1>7 DEF IInv, RegistryFollowsRows, Types, ReturnIssued, Handed, tables
  <2>6. ReturnsAreOwed'
    BY <1>0, <1>7 DEF IInv, ReturnsAreOwed, ReturnIsOwed, Held, Types, ReturnIssued, Handed, tables
  <2>7. CancelledHaveNoRow'
    BY <1>0, <1>7 DEF IInv, CancelledHaveNoRow, Types, ReturnIssued, Handed, tables
  <2>8. OneKeyPerDevice'
    <3> DEFINE c == request[r].certificate
               new == [to |-> request[r].key, certificate |-> c, under |-> issuer]
    <3>1. /\ handed' = handed \cup {new} /\ UNCHANGED <<registry, issuer>>
          /\ request[r].at = "return"
      BY <1>7 DEF ReturnIssued, Handed, tables
    <3>2. c.device \in Devices /\ c.key = request[r].key /\ Held(c)
      BY <1>f, <3>1 DEF IInv, Fields, ReturnsAreOwed, ReturnIsOwed
    <3>3. c.issuer = issuer
      BY <3>2 DEF IInv, OneIssuer, Held
    <3>4. new.to = request[r].key /\ new.certificate = c /\ new.under = issuer
      OBVIOUS
    <3> HIDE DEF new, c
    <3> QED
      BY <3>1, <3>2, <3>3, <3>4 DEF IInv, OneKeyPerDevice, Held, c
  <2>9. (~Repeats => CancelIsFinal)'
    BY <1>0, <1>7 DEF IInv, CancelIsFinal, Types, ReturnIssued, Handed, tables
  <2> QED
    BY <1>0, <2>1, <2>2, <2>3, <2>4, <2>5, <2>6, <2>7, <2>8, <2>9 DEF IInv
<1>8. ASSUME NEW r \in Requests, ReadOrgPki(r) PROVE IInv'
  <2>1. IssuerDoes(r)
    BY <1>0, <1>8, IssuerEffect
  <2>2. DrawsAreOnce'
    BY <2>1 DEF IInv, DrawsAreOnce, IssuerDoes, Others, history
  <2>3. AllIsDrawn'
    BY <2>1 DEF IInv, AllIsDrawn, Drawn, IssuerDoes, Others, history
  <2>4. OneIssuer'
    BY <1>f, <2>1 DEF IInv, Fields, OneIssuer, IssuerDoes, Others, history
  <2>5. ClaimedHold'
    <3>1. KeyedRowsStay /\ Others(r)
      BY <2>1 DEF IssuerDoes, KeyedRowsStay
    <3>2. ASSUME NEW s \in Requests, s # r PROVE ClaimHolds(s)'
      BY <1>f, <3>1, <3>2, ClaimStays DEF IInv, ClaimedHold, Others
    <3>3. ClaimHolds(r)'
      BY <2>1 DEF IssuerDoes, ClaimHolds
    <3> QED
      BY <3>2, <3>3 DEF ClaimedHold
  <2>6. RegistryFollowsRows'
    BY <2>1 DEF IInv, RegistryFollowsRows, IssuerDoes, Others, history
  <2>7. ReturnsAreOwed'
    <3>1. RegisteredStay /\ Others(r)
      BY <2>1 DEF IssuerDoes, RegisteredStay
    <3>2. ASSUME NEW s \in Requests, s # r PROVE ReturnIsOwed(s)'
      BY <1>f, <3>1, <3>2, ReturnStays DEF IInv, ReturnsAreOwed, Others
    <3>3. ReturnIsOwed(r)'
      BY <2>1 DEF IssuerDoes, ReturnIsOwed
    <3> QED
      BY <3>2, <3>3 DEF ReturnsAreOwed
  <2>8. CancelledHaveNoRow'
    BY <2>1 DEF IInv, CancelledHaveNoRow, IssuerDoes, Others, history
  <2>9. OneKeyPerDevice'
    BY <1>f, <2>1 DEF IInv, Fields, OneKeyPerDevice, IssuerDoes, Others, history
  <2>10. (~Repeats => CancelIsFinal)'
    BY <2>1 DEF IInv, CancelIsFinal, IssuerDoes, Others, history
  <2> QED
    BY <1>0, <2>2, <2>3, <2>4, <2>5, <2>6, <2>7, <2>8, <2>9, <2>10 DEF IInv
<1>9. ASSUME NEW r \in Requests, MakeOrgPki(r) PROVE IInv'
  <2>1. IssuerDoes(r)
    BY <1>0, <1>9, IssuerEffect
  <2>2. DrawsAreOnce'
    BY <2>1 DEF IInv, DrawsAreOnce, IssuerDoes, Others, history
  <2>3. AllIsDrawn'
    BY <2>1 DEF IInv, AllIsDrawn, Drawn, IssuerDoes, Others, history
  <2>4. OneIssuer'
    BY <1>f, <2>1 DEF IInv, Fields, OneIssuer, IssuerDoes, Others, history
  <2>5. ClaimedHold'
    <3>1. KeyedRowsStay /\ Others(r)
      BY <2>1 DEF IssuerDoes, KeyedRowsStay
    <3>2. ASSUME NEW s \in Requests, s # r PROVE ClaimHolds(s)'
      BY <1>f, <3>1, <3>2, ClaimStays DEF IInv, ClaimedHold, Others
    <3>3. ClaimHolds(r)'
      BY <2>1 DEF IssuerDoes, ClaimHolds
    <3> QED
      BY <3>2, <3>3 DEF ClaimedHold
  <2>6. RegistryFollowsRows'
    BY <2>1 DEF IInv, RegistryFollowsRows, IssuerDoes, Others, history
  <2>7. ReturnsAreOwed'
    <3>1. RegisteredStay /\ Others(r)
      BY <2>1 DEF IssuerDoes, RegisteredStay
    <3>2. ASSUME NEW s \in Requests, s # r PROVE ReturnIsOwed(s)'
      BY <1>f, <3>1, <3>2, ReturnStays DEF IInv, ReturnsAreOwed, Others
    <3>3. ReturnIsOwed(r)'
      BY <2>1 DEF IssuerDoes, ReturnIsOwed
    <3> QED
      BY <3>2, <3>3 DEF ReturnsAreOwed
  <2>8. CancelledHaveNoRow'
    BY <2>1 DEF IInv, CancelledHaveNoRow, IssuerDoes, Others, history
  <2>9. OneKeyPerDevice'
    BY <1>f, <2>1 DEF IInv, Fields, OneKeyPerDevice, IssuerDoes, Others, history
  <2>10. (~Repeats => CancelIsFinal)'
    BY <2>1 DEF IInv, CancelIsFinal, IssuerDoes, Others, history
  <2> QED
    BY <1>0, <2>2, <2>3, <2>4, <2>5, <2>6, <2>7, <2>8, <2>9, <2>10 DEF IInv
<1>10. ASSUME NEW r \in Requests, CommitClaim(r) PROVE IInv'
  <2>1. CommitDoes(r)
    BY <1>0, <1>10, CommitEffect
  <2>2. DrawsAreOnce'
    BY <2>1 DEF IInv, DrawsAreOnce, CommitDoes, Others, history
  <2>3. AllIsDrawn'
    BY <2>1 DEF IInv, AllIsDrawn, Drawn, CommitDoes, Others, history
  <2>4. OneIssuer'
    BY <2>1 DEF IInv, OneIssuer, CommitDoes, Others, history
  <2>5. ClaimedHold'
    <3>1. KeyedRowsStay /\ Others(r)
      BY <2>1 DEF CommitDoes, KeyedRowsStay
    <3>2. ASSUME NEW s \in Requests, s # r PROVE ClaimHolds(s)'
      BY <1>f, <3>1, <3>2, ClaimStays DEF IInv, ClaimedHold, Others
    <3>3. ClaimHolds(r)'
      <4>1. request'[r].at \in {"read", "rate_limited", "register"}
        BY <2>1 DEF CommitDoes
      <4>2. CASE request'[r].at = "register"
        BY <1>f, <2>1, <4>2 DEF CommitDoes, ClaimHolds, Fields
      <4> QED
        BY <4>1, <4>2 DEF ClaimHolds
    <3> QED
      BY <3>2, <3>3 DEF ClaimedHold
  <2>6. RegistryFollowsRows'
    <3> SUFFICES ASSUME NEW d \in Devices, NEW c \in Codes, registry[d] # NoRow,
                        pairing'[c] # NoRow, pairing'[c].device = d
                 PROVE  pairing'[c].key = registry[d].key
      BY <2>1 DEF RegistryFollowsRows, CommitDoes
    <3>1. CASE pairing'[c] = pairing[c]
      BY <3>1 DEF IInv, RegistryFollowsRows
    <3>2. CASE pairing'[c] # pairing[c]
      <4>1. pairing[c] # NoRow /\ pairing[c].key = NoKey /\ pairing[c].device = d
        BY <2>1, <3>2 DEF CommitDoes
      <4>2. registry[d].key = NoKey
        BY <4>1 DEF IInv, RegistryFollowsRows
      <4> QED
        BY <1>f, <4>2 DEF Fields
    <3> QED
      BY <3>1, <3>2
  <2>7. ReturnsAreOwed'
    BY <2>1 DEF IInv, ReturnsAreOwed, ReturnIsOwed, Held, CommitDoes, Others, history
  <2>8. CancelledHaveNoRow'
    BY <2>1 DEF IInv, CancelledHaveNoRow, CommitDoes, Others, history
  <2>9. OneKeyPerDevice'
    BY <2>1 DEF IInv, OneKeyPerDevice, CommitDoes, Others, history
  <2>10. (~Repeats => CancelIsFinal)'
    BY <2>1 DEF IInv, CancelIsFinal, CommitDoes, Others, history
  <2> QED
    BY <1>0, <2>2, <2>3, <2>4, <2>5, <2>6, <2>7, <2>8, <2>9, <2>10 DEF IInv
<1>11. ASSUME NEW r \in Requests, RegisterDevice(r) PROVE IInv'
  <2>1. RegisterDoes(r)
    BY <1>0, <1>11, RegisterEffect
  <2>2. DrawsAreOnce'
    BY <2>1 DEF IInv, DrawsAreOnce, RegisterDoes, Others
  <2>3. AllIsDrawn'
    BY <2>1 DEF IInv, AllIsDrawn, Drawn, RegisterDoes, Others
  <2>4. OneIssuer'
    BY <2>1 DEF IInv, OneIssuer, RegisterDoes, Others
  <2>5. ClaimedHold'
    BY <2>1 DEF IInv, ClaimedHold, ClaimHolds, RegisterDoes, Others
  <2>6. RegistryFollowsRows'
    <3> DEFINE q == request[r]
    <3> SUFFICES ASSUME NEW d \in Devices, NEW c \in Codes, registry'[d] # NoRow,
                        pairing[c] # NoRow, pairing[c].device = d
                 PROVE  pairing[c].key = registry'[d].key
      BY <2>1 DEF RegistryFollowsRows, RegisterDoes
    <3>1. CASE registry'[d] = registry[d]
      BY <3>1 DEF IInv, RegistryFollowsRows
    <3>2. CASE registry'[d] # registry[d]
      <4>1. d = q.device /\ registry'[d].key = q.key /\ q.at = "register" /\ q.code \in Codes
        BY <2>1, <3>2 DEF RegisterDoes
      <4>2. Drawn(c, d) /\ Drawn(q.code, d)
        BY <4>1 DEF IInv, AllIsDrawn
      <4>3. c = q.code
        BY <4>1, <4>2, DrawnOnce DEF IInv
      <4>4. ClaimHolds(r)
        BY DEF IInv, ClaimedHold
      <4> QED
        BY <4>1, <4>3, <4>4 DEF ClaimHolds
    <3> QED
      BY <3>1, <3>2
  <2>7. ReturnsAreOwed'
    <3>1. RegisteredStay /\ Others(r)
      BY <2>1 DEF RegisterDoes, RegisteredStay
    <3>2. ASSUME NEW s \in Requests, s # r PROVE ReturnIsOwed(s)'
      BY <1>f, <3>1, <3>2, ReturnStays DEF IInv, ReturnsAreOwed, Others
    <3>3. ReturnIsOwed(r)'
      BY <2>1 DEF RegisterDoes, ReturnIsOwed
    <3> QED
      BY <3>2, <3>3 DEF ReturnsAreOwed
  <2>8. CancelledHaveNoRow'
    BY <2>1 DEF IInv, CancelledHaveNoRow, RegisterDoes, Others
  <2>9. OneKeyPerDevice'
    <3> DEFINE q == request[r]
               c == [device |-> q.device, key |-> q.key, issuer |-> q.issuer]
               new == [to |-> q.key, under |-> issuer, certificate |-> c]
    <3>1. CASE UNCHANGED <<registry, handed>>
      BY <2>1, <3>1 DEF IInv, OneKeyPerDevice, RegisterDoes
    <3>2. CASE ~UNCHANGED <<registry, handed>>
      <4>1. /\ q.device \in Devices /\ registry[q.device] = NoRow
            /\ registry'[q.device] # NoRow /\ UNCHANGED issuer
            /\ registry'[q.device].key = q.key /\ registry'[q.device].issuer = q.issuer
            /\ \A d \in Devices \ {q.device} : registry'[d] = registry[d]
            /\ handed' = handed \cup {new} /\ q.issuer = issuer
        BY <2>1, <3>2 DEF IInv, RegisterDoes, OneIssuer
      <4>2. /\ new.to = q.key /\ new.under = issuer /\ new.certificate = c
            /\ c.device = q.device /\ c.key = q.key /\ c.issuer = q.issuer
        OBVIOUS
      <4> HIDE DEF new, c
      <4> SUFFICES ASSUME NEW h \in handed'
                   PROVE  LET k == h.certificate IN
                            /\ h.to = k.key /\ k.issuer = issuer /\ h.under = issuer
                            /\ registry'[k.device] # NoRow
                            /\ registry'[k.device].key = k.key
                            /\ registry'[k.device].issuer = k.issuer
        BY <4>1 DEF OneKeyPerDevice
      <4>3. CASE h \in handed
        <5>1. h.certificate.device \in Devices /\ registry[h.certificate.device] # NoRow
          BY <1>f, <4>3 DEF IInv, Fields, OneKeyPerDevice
        <5>2. registry'[h.certificate.device] = registry[h.certificate.device]
          BY <4>1, <5>1
        <5> QED
          BY <4>3, <5>2 DEF IInv, OneKeyPerDevice
      <4>4. CASE h = new
        BY <4>1, <4>2, <4>4
      <4> QED
        BY <4>1, <4>3, <4>4
    <3> QED
      BY <3>1, <3>2
  <2>10. (~Repeats => CancelIsFinal)'
    <3> DEFINE q == request[r]
    <3> SUFFICES ASSUME ~Repeats, NEW d \in cancelled PROVE registry'[d] = NoRow
      BY <2>1 DEF CancelIsFinal, RegisterDoes
    <3>1. d \in Devices /\ registry[d] = NoRow
      BY <1>f DEF IInv, Fields, CancelIsFinal
    <3>2. CASE d # q.device
      BY <2>1, <3>1, <3>2 DEF RegisterDoes
    <3>3. CASE d = q.device
      <4>1. q.at = "register" /\ q.code \in Codes /\ pairing[q.code] # NoRow
        BY <2>1 DEF IInv, RegisterDoes, ClaimedHold, ClaimHolds
      <4>2. Drawn(q.code, d) /\ Drawn(q.code, pairing[q.code].device)
        BY <3>3, <4>1 DEF IInv, AllIsDrawn
      <4>3. pairing[q.code].device = d
        <5>1. pairing[q.code].device \in Devices
          BY <1>f, <4>1 DEF Fields
        <5> QED
          BY <3>1, <4>1, <4>2, <5>1, DrawnOnce DEF IInv
      <4> QED
        BY <4>1, <4>3 DEF IInv, CancelledHaveNoRow
    <3> QED
      BY <3>2, <3>3
  <2> QED
    BY <1>0, <2>2, <2>3, <2>4, <2>5, <2>6, <2>7, <2>8, <2>9, <2>10 DEF IInv
<1>12. ASSUME NEW r \in Requests, Fail(r) PROVE IInv'
  <2>1. DrawsAreOnce'
    BY <1>0, <1>12 DEF IInv, DrawsAreOnce, Types, Fail, Running, tables, history
  <2>2. AllIsDrawn'
    BY <1>0, <1>12 DEF IInv, AllIsDrawn, Drawn, Types, Fail, Running, tables, history
  <2>3. OneIssuer'
    BY <1>0, <1>12 DEF IInv, OneIssuer, Types, Fail, Running, tables, history
  <2>4. ClaimedHold'
    BY <1>0, <1>12 DEF IInv, ClaimedHold, ClaimHolds, Types, Fail, Running, tables, history
  <2>5. RegistryFollowsRows'
    BY <1>0, <1>12 DEF IInv, RegistryFollowsRows, Types, Fail, Running, tables, history
  <2>6. ReturnsAreOwed'
    BY <1>0, <1>12
       DEF IInv, ReturnsAreOwed, ReturnIsOwed, Held, Types, Fail, Running, tables, history
  <2>7. CancelledHaveNoRow'
    BY <1>0, <1>12 DEF IInv, CancelledHaveNoRow, Types, Fail, Running, tables, history
  <2>8. OneKeyPerDevice'
    BY <1>0, <1>12 DEF IInv, OneKeyPerDevice, Types, Fail, Running, tables, history
  <2>9. (~Repeats => CancelIsFinal)'
    BY <1>0, <1>12 DEF IInv, CancelIsFinal, Types, Fail, Running, tables, history
  <2> QED
    BY <1>0, <2>1, <2>2, <2>3, <2>4, <2>5, <2>6, <2>7, <2>8, <2>9 DEF IInv
<1>13. CASE Restart
  <2>1. DrawsAreOnce'
    BY <1>0, <1>13 DEF IInv, DrawsAreOnce, Types, Restart, Running, tables, history
  <2>2. AllIsDrawn'
    BY <1>0, <1>13 DEF IInv, AllIsDrawn, Drawn, Types, Restart, Running, tables, history
  <2>3. OneIssuer'
    BY <1>0, <1>13 DEF IInv, OneIssuer, Types, Restart, Running, tables, history
  <2>4. ClaimedHold'
    BY <1>0, <1>13 DEF IInv, ClaimedHold, ClaimHolds, Types, Restart, Running, tables, history
  <2>5. RegistryFollowsRows'
    BY <1>0, <1>13 DEF IInv, RegistryFollowsRows, Types, Restart, Running, tables, history
  <2>6. ReturnsAreOwed'
    BY <1>0, <1>13
       DEF IInv, ReturnsAreOwed, ReturnIsOwed, Held, Types, Restart, Running, tables, history
  <2>7. CancelledHaveNoRow'
    BY <1>0, <1>13 DEF IInv, CancelledHaveNoRow, Types, Restart, Running, tables, history
  <2>8. OneKeyPerDevice'
    BY <1>0, <1>13 DEF IInv, OneKeyPerDevice, Types, Restart, Running, tables, history
  <2>9. (~Repeats => CancelIsFinal)'
    BY <1>0, <1>13 DEF IInv, CancelIsFinal, Types, Restart, Running, tables, history
  <2> QED
    BY <1>0, <2>1, <2>2, <2>3, <2>4, <2>5, <2>6, <2>7, <2>8, <2>9 DEF IInv
<1>14. CASE Tick
  <2>1. DrawsAreOnce'
    BY <1>0, <1>14 DEF IInv, DrawsAreOnce, Types, Tick, tables, history
  <2>2. AllIsDrawn'
    BY <1>0, <1>14 DEF IInv, AllIsDrawn, Drawn, Types, Tick, tables, history
  <2>3. OneIssuer'
    BY <1>0, <1>14 DEF IInv, OneIssuer, Types, Tick, tables, history
  <2>4. ClaimedHold'
    BY <1>0, <1>14 DEF IInv, ClaimedHold, ClaimHolds, Types, Tick, tables, history
  <2>5. RegistryFollowsRows'
    BY <1>0, <1>14 DEF IInv, RegistryFollowsRows, Types, Tick, tables, history
  <2>6. ReturnsAreOwed'
    BY <1>0, <1>14 DEF IInv, ReturnsAreOwed, ReturnIsOwed, Held, Types, Tick, tables, history
  <2>7. CancelledHaveNoRow'
    BY <1>0, <1>14 DEF IInv, CancelledHaveNoRow, Types, Tick, tables, history
  <2>8. OneKeyPerDevice'
    BY <1>0, <1>14 DEF IInv, OneKeyPerDevice, Types, Tick, tables, history
  <2>9. (~Repeats => CancelIsFinal)'
    BY <1>0, <1>14 DEF IInv, CancelIsFinal, Types, Tick, tables, history
  <2> QED
    BY <1>0, <2>1, <2>2, <2>3, <2>4, <2>5, <2>6, <2>7, <2>8, <2>9 DEF IInv
<1>15. CASE UNCHANGED vars
  BY <1>15 DEF IInv, vars, tables, history, Types, DrawsAreOnce, AllIsDrawn, Drawn, OneIssuer,
     ClaimedHold, ClaimHolds, RegistryFollowsRows, ReturnsAreOwed, ReturnIsOwed, Held,
     CancelledHaveNoRow, OneKeyPerDevice, CancelIsFinal
<1> QED
  BY <1>1, <1>2, <1>3, <1>4, <1>5, <1>6, <1>7, <1>8, <1>9, <1>10,
     <1>11, <1>12, <1>13, <1>14, <1>15 DEF Next, Step

LEMMA Start == Init => IInv
<1> SUFFICES ASSUME Init PROVE IInv
  OBVIOUS
<1>1. Types
  <2>1. [at |-> "idle"] \in Shape
    BY DEF Shape, Over
  <2> QED
    BY <2>1 DEF Init, Types
<1> QED
  BY <1>1 DEF Init, IInv, DrawsAreOnce, AllIsDrawn, OneIssuer, ClaimedHold, ClaimHolds,
              RegistryFollowsRows, ReturnsAreOwed, ReturnIsOwed, CancelledHaveNoRow,
              OneKeyPerDevice, CancelIsFinal

(* Certificates of one issuer, a device's one key, the registry and the    *)
(* answers agree, whatever claims race and whatever fails (pairing.ts:522).*)
THEOREM OneKey == Spec => []OneKeyPerDevice
<1>1. IInv => OneKeyPerDevice
  BY DEF IInv
<1> QED
  BY Start, Inductive, <1>1, PTL DEF Spec

(* A cancelled code never becomes a device (pairing.ts:621), for mints that*)
(* do not draw a code again: the codes of one organisation's life.         *)
THEOREM CancelsAreFinal == ~Repeats => (Spec => []CancelIsFinal)
<1> SUFFICES ASSUME ~Repeats PROVE Spec => []CancelIsFinal
  OBVIOUS
<1>1. IInv => CancelIsFinal
  BY DEF IInv
<1> QED
  BY Start, Inductive, <1>1, PTL DEF Spec

=============================================================================
