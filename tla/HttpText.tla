------------------------------- MODULE HttpText -------------------------------
(***************************************************************************)
(* The conversions of libhttpd (protocol.c, httpdOutput of api.c and       *)
(* ip_acl.c) and what each of them promises.  Bytes are numbers; in paths, *)
(* templates and base-64 texts a character is one of a few words.          *)
(***************************************************************************)
EXTENDS Integers, Sequences, SequencesExt, FiniteSetsExt

At(s, i) == IF i \in DOMAIN s THEN s[i] ELSE ""

Indices(s) == [i \in DOMAIN s |-> i]

Kept(s, Test(_)) == LET K == SelectSeq(Indices(s), Test)
                    IN  [j \in DOMAIN K |-> s[K[j]]]

-----------------------------------------------------------------------------
(* Paths (_httpd_sanitiseUrl).                                             *)

OneSlash(p) == Kept(p, LAMBDA i : ~(p[i] = "/" /\ At(p, i + 1) = "/"))

\* Mutant: the second loop drops the slash as well.
BadNoDots(p) ==
    LET dot(i) == At(p, i) = "/" /\ At(p, i + 1) = "." /\ At(p, i + 2) = "/"
    IN  Kept(p, LAMBDA i : ~dot(i) /\ ~dot(i - 1) /\ ~dot(i - 2))

\* The second loop goes on at the slash which ends the "/./" it dropped.
NoDots(p) ==
    LET dot(i) == At(p, i) = "/" /\ At(p, i + 1) = "." /\ At(p, i + 2) = "/"
    IN  Kept(p, LAMBDA i : ~dot(i) /\ ~dot(i - 1))

Up(p, i) == At(p, i) = "/" /\ At(p, i + 1) = "." /\ At(p, i + 2) = "." /\ At(p, i + 3) = "/"

\* The third loop remembers where the last element began, and no other.
NoUps(p) ==
    FoldLeftDomain(LAMBDA a, i :
        IF a.skip > 0 THEN [a EXCEPT !.skip = @ - 1]
        ELSE IF Up(p, i) THEN [a EXCEPT !.to = SubSeq(a.to, 1, a.last), !.skip = 2]
        ELSE [a EXCEPT !.to = Append(@, p[i]), !.last = IF p[i] = "/" THEN Len(a.to) ELSE @],
        [to |-> <<>>, last |-> 0, skip |-> 0], p).to

SanitiseUrl(p) == NoUps(NoDots(OneSlash(p)))

\* The elements of a path, and the path of elements.
Elements(p) ==
    LET ends == Append(SelectSeq(Indices(p), LAMBDA i : p[i] = "/"), Len(p) + 1)
    IN  [j \in 1..Len(ends)-1 |-> SubSeq(p, ends[j] + 1, ends[j + 1] - 1)]

Joined(es) == FlattenSeq([j \in DOMAIN es |-> <<"/">> \o es[j]])

\* Every element but the last goes down, up, or nowhere.
Resolved(p) ==
    LET es == Elements(p)
        step(stack, e) == IF e \in {<<>>, <<".">>} THEN stack
                          ELSE IF e # <<".", ".">> THEN Append(stack, e)
                          ELSE IF stack = <<>> THEN stack ELSE Front(stack)
    IN  Joined(Append(FoldLeft(step, <<>>, Front(es)), Last(es)))

\* A sanitised path stands for the place the path asked for.  One element is
\* remembered: the second of two "/.." in a row goes nowhere.
PathResolved(p) ==
    LET q == NoDots(OneSlash(p))
    IN  (p # <<>> /\ p[1] = "/" /\ ~\E i \in DOMAIN q : Up(q, i) /\ Up(q, i + 3))
            => SanitiseUrl(p) = Resolved(p)

-----------------------------------------------------------------------------
(* Escapes (_httpd_escape, _httpd_from_hex, _httpd_unescape).              *)

Acceptable(a) == a \in {32, 42, 45, 46, 47, 95} \cup 48..57 \cup 64..90 \cup 97..122

Hex(d) == IF d < 10 THEN 48 + d ELSE 55 + d

Escape(t) == FlattenSeq([i \in DOMAIN t |->
                 IF Acceptable(t[i]) THEN <<t[i]>> ELSE <<37, Hex(t[i] \div 16), Hex(t[i] % 16)>>])

FromHex(c) == IF c \in 48..57 THEN c - 48 ELSE IF c \in 65..70 THEN c - 55 ELSE c - 87

\* In place: after a "%" at the end the byte which stood there remains.
Unescape(t) ==
    LET step(a, c) ==
            CASE a.mode = 1 -> [out |-> Append(a.out, (FromHex(c) * 16) % 256), mode |-> 2]
              [] a.mode = 2 -> [out |-> Append(Front(a.out), (Last(a.out) + FromHex(c)) % 256), mode |-> 0]
              [] c = 37 -> [a EXCEPT !.mode = 1]
              [] c = 43 -> [a EXCEPT !.out = Append(@, 32)]
              [] OTHER -> [a EXCEPT !.out = Append(@, c)]
        end == FoldLeft(step, [out |-> <<>>, mode |-> 0], t)
    IN  IF end.mode = 1 THEN Append(end.out, t[Len(end.out) + 1]) ELSE end.out

\* Escaping loses nothing, and unescaping never makes a text longer.
EscapeKept(t) == Unescape(Escape(t)) = t /\ Len(Unescape(t)) <= Len(t)

-----------------------------------------------------------------------------
(* Base 64 (_httpd_decode): four digits make three bytes, anything else    *)
(* (64 here, for "=") is passed over, and size bytes have room.            *)

Decode(s, size) ==
    LET step(a, d) ==
            LET c == CASE a.phase = 1 -> a.prev * 4 + d \div 16
                       [] a.phase = 2 -> (a.prev % 16) * 16 + d \div 4
                       [] a.phase = 3 -> (a.prev % 4) * 64 + d
                       [] OTHER -> 0
            IN  IF d = 64 THEN a
                ELSE [prev |-> d, phase |-> (a.phase + 1) % 4,
                      out |-> IF a.phase = 0 \/ Len(a.out) = size THEN a.out
                              ELSE Append(a.out, c % 256)]
    IN  FoldLeft(step, [prev |-> 0, phase |-> 0, out |-> <<>>], s).out

\* The usual encoding, three bytes at a time.
Encode(t) ==
    LET b(i) == IF i \in DOMAIN t THEN t[i] ELSE 0
        three(i) == <<b(i) \div 4, (b(i) % 4) * 16 + b(i + 1) \div 16,
                      IF i < Len(t) THEN (b(i + 1) % 16) * 4 + b(i + 2) \div 64 ELSE 64,
                      IF i + 1 < Len(t) THEN b(i + 2) % 64 ELSE 64>>
    IN  FlattenSeq([j \in 1..(Len(t) + 2) \div 3 |-> three(3 * j - 2)])

\* Decoding gives back what was encoded, or as much of it as there is room for.
Base64Kept(t, size) == Decode(Encode(t), size) = SubSeq(t, 1, Min({size, Len(t)}))

-----------------------------------------------------------------------------
(* Templates: "${v}" in files (_httpd_sendExpandedText) and "$v" in output *)
(* (httpdOutput).  A name is one word; "v" is a variable and "w" is not.   *)

VarValue == <<"V1", "V2">>

After(s, i, c) == {j \in DOMAIN s : j > i /\ s[j] = c}

SendExpandedText(s) ==
    FoldLeftDomain(LAMBDA a, i :
        IF i < a.next THEN a
        ELSE IF s[i] # "$" THEN [a EXCEPT !.out = Append(@, s[i])]
        ELSE IF At(s, i + 1) # "{" \/ After(s, i, "}") = {} THEN [a EXCEPT !.out = Append(@, "$")]
        ELSE LET end == Min(After(s, i, "}"))
             IN  [next |-> end + 1,
                  out |-> a.out \o IF SubSeq(s, i + 2, end - 1) = <<"v">> THEN VarValue ELSE <<>>],
        [next |-> 1, out |-> <<>>], s).out

Output(s) ==
    FoldLeftDomain(LAMBDA a, i :
        IF i < a.next THEN a
        ELSE IF s[i] # "$" THEN [a EXCEPT !.out = Append(@, s[i])]
        ELSE LET ends == {j \in i+1..Len(s) : s[j] \notin {"v", "w"}} \cup {Len(s) + 1}
                 name == SubSeq(s, i + 1, Min(ends) - 1)
             IN  [next |-> Min(ends),
                  out |-> a.out \o IF name = <<"v">> THEN VarValue ELSE <<"$">> \o name],
        [next |-> 1, out |-> <<>>], s).out

\* A template is text with references; each of the two forms replaces its own
\* references and leaves the text, also where it looks like a reference.
Pieces == {<<"$">>, <<"-">>, <<"$", "{", "v", "}">>, <<"$", "{", "w", "}">>, <<"$", "v">>, <<"$", "w">>}

ExpandedRight(ps) ==
    LET text == FlattenSeq(ps)
        with(ref(_)) == FlattenSeq([i \in DOMAIN ps |-> ref(ps[i])])
    IN  /\ SendExpandedText(text) = with(LAMBDA q : IF At(q, 2) # "{" THEN q
                                                    ELSE IF q[3] = "v" THEN VarValue ELSE <<>>)
        /\ Output(text) = with(LAMBDA q : IF q = <<"$", "v">> THEN VarValue ELSE q)

-----------------------------------------------------------------------------
(* Access lists (ip_acl.c), on addresses of Bits bits for the 32 of IP.    *)

\* An entry is [addr, len, permit]; the client's address has all its bits.
\* _isInCidrBlock builds a mask of len ones and compares what it leaves.
Mask(len, bits) == (2^len - 1) * 2^(bits - len)

And(a, m, bits) == FoldSet(LAMBDA i, s : s + 2^i, 0,
                       {i \in 0..bits-1 : (a \div 2^i) % 2 = 1 /\ (m \div 2^i) % 2 = 1})

InCidrBlock(e, addr, bits) ==
    And(e.addr, Mask(e.len, bits), bits) = And(addr, Mask(e.len, bits), bits)

\* httpdAddAcl puts an entry last, httpdCheckAcl takes the first that fits.
AddAcl(acl, e) == Append(acl, e)

CheckAcl(acl, addr, bits) ==
    LET fits == {i \in DOMAIN acl : InCidrBlock(acl[i], addr, bits)}
    IN  fits # {} /\ acl[Min(fits)].permit

\* An entry speaks for a range of addresses, whatever the bits of its address
\* behind its length; who is in no range is denied.
AclObeyed(acl, addr, bits) ==
    LET range(e) == LET size == 2^(bits - e.len)
                    IN  {(e.addr \div size) * size + k : k \in 0..size-1}
    IN  CheckAcl(acl, addr, bits) <=>
            \E i \in DOMAIN acl : /\ addr \in range(acl[i]) /\ acl[i].permit
                                  /\ \A j \in 1..i-1 : addr \notin range(acl[j])
=============================================================================
