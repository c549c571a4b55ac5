---------------------------------- MODULE Stun ----------------------------------
(***************************************************************************)
(* utils/stun.c, the messages of STUN as bytes, and utils/stunlib.c, its   *)
(* client: a handler with the address the server saw, and with the name    *)
(* and password that the server gave it.                                   *)
(*                                                                         *)
(* A message is [type, attrs]: attrs gives each attribute it has a value,  *)
(* the bytes of an address (port and number) or a string, the class,       *)
(* number and reason of an error, the numbers of unknown attributes.  Not  *)
(* modelled: the transaction's id, which is sent and never compared, the   *)
(* hash (a constant text in the code), the sockets, and stun_trysend.      *)
(***************************************************************************)
EXTENDS Naturals, Sequences, SequencesExt, FiniteSetsExt

HeaderSize == 20
BindRequest == 1
BindResponse == 257
SecretResponse == 258

\* The order in which attributes are encoded; MessageIntegrity comes last.
Order == <<"mapped", "response", "change", "source", "changed", "username",
           "password", "error", "unknown", "reflected", "integrity">>

Code == [mapped |-> 1, response |-> 2, change |-> 3, source |-> 4, changed |-> 5, username |-> 6,
         password |-> 7, integrity |-> 8, error |-> 9, unknown |-> 10, reflected |-> 11]

Addresses == {"mapped", "response", "source", "changed", "reflected"}

\* Mutant: the bytes are those of the machine (no htons).
BadEncode16(n) == <<n % 256, n \div 256>>

Encode16(n) == <<n \div 256, n % 256>>
Decode16(b, i) == b[i] * 256 + b[i + 1]
Zeros(n) == [i \in 1..n |-> 0]

-----------------------------------------------------------------------------
(* stunEncodeMessage.                                                      *)

\* The length of an error and of unknown attributes is two more than what is
\* written of them.
EncodeAtr(n, v) ==
    LET atr(len, body) == Encode16(Code[n]) \o Encode16(len) \o body
    IN  CASE n \in Addresses -> atr(8, <<0, 1>> \o v)
          [] n = "error" -> atr(6 + Len(v.reason), <<0, 0, v.class, v.number>> \o v.reason)
          [] n = "unknown" -> atr(2 + 2 * Len(v), FlattenSeq([i \in DOMAIN v |-> Encode16(v[i])]))
          [] OTHER -> atr(Len(v), v)

Encode(m, password) ==
    LET attrs == m.attrs @@ IF password = <<>> THEN <<>> ELSE "integrity" :> Zeros(20)
        has == SelectSeq(Order, LAMBDA n : n \in DOMAIN attrs)
        body == FlattenSeq([i \in DOMAIN has |-> EncodeAtr(has[i], attrs[has[i]])])
    IN  Encode16(m.type) \o Encode16(Len(body)) \o Zeros(16) \o body

-----------------------------------------------------------------------------
(* stunParseMessage.                                                       *)

\* A sequence of at most one value.
ParseAtr(n, b) ==
    LET only(test, v) == IF test THEN <<v>> ELSE <<>>
    IN  CASE n \in Addresses -> only(Len(b) = 8 /\ b[2] = 1, SubSeq(b, 3, 8))
          [] n = "change" -> only(Len(b) = 4, b)
          [] n \in {"username", "password"} -> only(Len(b) < 256 /\ Len(b) % 4 = 0, b)
          [] n = "integrity" -> only(Len(b) = 20, b)
          [] n = "error" -> only(Len(b) >= 4, [class |-> b[3], number |-> b[4],
                                               reason |-> SubSeq(b, 5, Len(b))])
          [] n = "unknown" -> only(Len(b) % 4 = 0 /\ Len(b) < 18,
                                   [i \in 1..Len(b) \div 4 |-> Decode16(b, 2 * i - 1)])

\* The attribute at a.next; those nobody knows are passed over from 2^15 on.
ParseNext(b, a) ==
    LET at == a.next
        len == IF at + 3 > Len(b) THEN Len(b) ELSE Decode16(b, at + 2)
        names == {n \in DOMAIN Code : Code[n] = Decode16(b, at)}
        n == CHOOSE x \in names : TRUE
        v == ParseAtr(n, SubSeq(b, at + 4, at + 3 + len))
    IN  CASE at + 3 + len > Len(b) -> [a EXCEPT !.ok = FALSE]
          [] at + 3 + len <= Len(b) /\ names = {} ->
                 [a EXCEPT !.ok = Decode16(b, at) >= 2^15, !.next = at + 4 + len]
          [] OTHER -> [a EXCEPT !.ok = v # <<>>, !.next = at + 4 + len,
                                !.attrs = (IF v = <<>> THEN <<>> ELSE n :> v[1]) @@ @]

\* The type is there even when the rest of the message is refused.
Parse(b) ==
    LET start == [ok |-> TRUE, next |-> HeaderSize + 1, attrs |-> <<>>]
        end == FoldLeftDomain(LAMBDA a, i : IF a.ok /\ i = a.next THEN ParseNext(b, a) ELSE a,
                              start, b)
    IN  CASE Len(b) < HeaderSize -> [ok |-> FALSE, type |-> 0, attrs |-> <<>>]
          [] Len(b) >= HeaderSize /\ Decode16(b, 3) + HeaderSize # Len(b) ->
                 [ok |-> FALSE, type |-> Decode16(b, 1), attrs |-> <<>>]
          [] OTHER -> [ok |-> end.ok, type |-> Decode16(b, 1), attrs |-> end.attrs]

-----------------------------------------------------------------------------
(* The client: a handler is [nat, user]; user has bytes and a length.      *)

\* send_bindingreq.
BindingReq(h) ==
    LET name == SubSeq(h.user.value, 1, h.user.size)
    IN  Encode([type |-> BindRequest,
                attrs |-> ("change" :> Zeros(4))
                          @@ IF name = <<>> THEN <<>> ELSE "username" :> name], <<>>)

\* recv_bindingresp does not ask whether the message could be parsed.
RecvBinding(h, b) ==
    LET p == Parse(b)
    IN  IF p.type # BindResponse THEN h
        ELSE [h EXCEPT !.nat = IF "mapped" \in DOMAIN p.attrs THEN p.attrs.mapped ELSE Zeros(6)]

\* recv_shsresp copies the bytes of the name, and not their number; likewise
\* the password, so that no request of the handler has a hash.
RecvSecret(h, b) ==
    LET p == Parse(b)
    IN  IF p.type = SecretResponse /\ "username" \in DOMAIN p.attrs
        THEN [h EXCEPT !.user.value = p.attrs.username] ELSE h

-----------------------------------------------------------------------------

\* A message without error and unknown attributes is parsed to what was
\* encoded, and what is left of one that was cut off gives the handler the
\* address that was sent, none, or nothing new, never a part of it; the name
\* of a shared secret never gets into a request.
MessageKept(m, password) ==
    LET b == Encode(m, password)
        h == [nat |-> <<1, 2, 3, 4, 5, 6>>, user |-> [value |-> <<>>, size |-> 0]]
        p == Parse(b)
    IN  /\ DOMAIN m.attrs \cap {"error", "unknown"} = {} =>
               /\ p.ok /\ p.type = m.type
               /\ [n \in DOMAIN p.attrs \ {"integrity"} |-> p.attrs[n]] = m.attrs
               /\ "integrity" \in DOMAIN p.attrs <=> password # <<>>
        /\ \A k \in 0..Len(b) :
               RecvBinding(h, SubSeq(b, 1, k)).nat \in
                   {h.nat, Zeros(6)} \cup IF "mapped" \in DOMAIN m.attrs THEN {m.attrs.mapped} ELSE {}
        /\ Parse(BindingReq(RecvSecret(h, b))).attrs = "change" :> Zeros(4)
=============================================================================
