------------------------------ MODULE JwtTokens -------------------------------
(***************************************************************************)
(* The tokens of one GenerateTokensService call: an access and a refresh   *)
(* token with the same payload, secret and token id, told apart only by    *)
(* their lifetime.  The pair is kept as the payload and the instant it was *)
(* signed at.                                                              *)
(***************************************************************************)
EXTENDS SessionAggregate

CONSTANTS AccessTTL, RefreshTTL  \* JWT_ACCESS_/JWT_REFRESH_TOKEN_EXPIRATION_TIME

ASSUME TtlAssumption == AccessTTL \in Nat \ {0} /\ RefreshTTL \in Nat \ {0}

TokenKinds == {"access", "refresh"}

Payload == [sid: Sids, sub: Users, deviceId: Devices, iat: Times]

ASSUME NullIsNoPayload == Null \notin Payload

Unused(pairs) == {j \in Jtis : pairs[j] = Null}

\* ID.create() draws a session id no sign-in drew before
FreshSids(pairs) == {s \in Sids : \A j \in Jtis \ Unused(pairs) : pairs[j].sid # s}

GenerateTokens(s, u, dev, t) == [sid |-> s, sub |-> u, deviceId |-> dev, iat |-> t]

\* jwtService.verify of the token of this kind in pair p at instant t
Verify(p, kind, t) ==
  t < p.iat + (IF kind = "access" THEN AccessTTL ELSE RefreshTTL)

CompareAnyDigest(kind, j, digest) == TRUE      \* mutated form: never compared

\* compareHmacDigests of the presented token with the stored digest, which is
\* always taken of a refresh token
CompareHmacDigests(kind, j, digest) == kind = "refresh" /\ j = digest
===============================================================================
