----------------------------- MODULE HttpRequest -----------------------------
(***************************************************************************)
(* How libhttpd reads one request (httpdReadRequest of api.c, the readers  *)
(* and _httpd_storeData of protocol.c), and what the page of radmsrvd      *)
(* takes for a form to be saved.                                           *)
(*                                                                         *)
(* The text of a request is a sequence of tokens: a word, a header ("form" *)
(* is the Content-Type of a form, "length" the Content-Length of the body, *)
(* "cookie" sets the variable W), "x" a character of any other header.     *)
(* read takes what has arrived, up to ReadMax tokens, and gives nothing    *)
(* when the browser is slower than three seconds or gone; each reader then *)
(* gives up, and what it had of a line is lost, but the request is served. *)
(*                                                                         *)
(* Not modelled: authorization, Host, Referer and If-Modified-Since (copied *)
(* out of their line), a body longer than the line buffer, hexadecimal     *)
(* escapes (HttpText), and content types other than the form's.            *)
(***************************************************************************)
EXTENDS Naturals, Sequences, SequencesExt, FiniteSetsExt

CONSTANTS LineMax, \* HTTP_MAX_LEN, in tokens
          ReadMax  \* HTTP_READ_BUF_LEN, in tokens

\* The first line of every request fits the buffer.
ASSUME RequestAssumption == LineMax \in Nat /\ LineMax > 6 /\ ReadMax \in Nat

VARIABLES sent,      \* the request of the browser
          wire,      \* its text, as far as it has not been read
          buf,       \* the rest of readBuf
          broken,    \* readBufRemain is negative: a read failed
          phase,     \* "idle", "first", "headers", "body", "store", "done", "refused"
          line,      \* the line read so far
          got,       \* method, path with query, and the two headers of a form
          body,      \* the body read so far
          variables, \* names with their values, oldest first
          late       \* history: read gave nothing before the text was read

input == <<sent, wire, buf, broken, late>>
output == <<line, got, body, variables>>
requestVars == <<input, phase, output>>

-----------------------------------------------------------------------------
(* What browsers send.                                                     *)

\* The form of show_radmclient_list: the web port, other fields, the button.
Form(p, b) == << <<"W", <<"1">>>>, <<"P", <<p>>>>, <<"Submit", b>> >>

Buttons == {<<"Save">>, <<"Save", " ", "Reboot">>}

Forms == {Form(p, b) : p \in {"1", "2"}, b \in Buttons}

Query == << <<"cfg", <<"write">>>> >>

Escaped(text) == [i \in DOMAIN text |-> IF text[i] = " " THEN "+" ELSE text[i]]

Field(f) == <<f[1], "=">> \o Escaped(f[2])

Encoded(form) ==
    FlattenSeq([i \in DOMAIN form |-> (IF i = 1 THEN <<>> ELSE <<"&">>) \o Field(form[i])])

\* A header nobody looks at, as long as the buffer, a token less or more.
Filler(n) == [i \in 1..n |-> "x"]

Headers == {<< <<"form">>, <<"length">> >>, << <<"cookie">>, <<"length">>, <<"form">> >>,
            << <<"length">> >>}
           \cup {<<Filler(n), <<"form">>, <<"length">> >> : n \in LineMax-1..LineMax+1}

Requests == [method : {"POST"}, query : {<<>>, Query}, headers : Headers, form : Forms]
            \cup [method : {"GET", "PUT"}, query : {Query}, headers : {<<>>, <<Filler(2)>>}, form : {<<>>}]

Text(r) ==
    LET crlf(t) == t \o <<"\r", "\n">>
    IN  crlf(<<r.method, "/">> \o IF r.query = <<>> THEN <<>> ELSE <<"?">> \o Encoded(r.query))
        \o FlattenSeq([i \in DOMAIN r.headers |-> crlf(r.headers[i])])
        \o crlf(<<>>) \o Encoded(r.form)

-----------------------------------------------------------------------------
(* Variables.                                                              *)

\* httpdGetVariableByName: the oldest value of the name, in a sequence.
ValueIn(vs, n) ==
    LET S == {i \in DOMAIN vs : vs[i].name = n}
    IN  IF S = {} THEN <<>> ELSE <<Head(vs[Min(S)].values)>>

Value(n) == ValueIn(variables, n)

\* httpdAddVariable.
AddVariable(vs, n, v) ==
    IF \E i \in DOMAIN vs : vs[i].name = n
    THEN [i \in DOMAIN vs |-> IF vs[i].name = n
                              THEN [vs[i] EXCEPT !.values = Append(@, v)] ELSE vs[i]]
    ELSE Append(vs, [name |-> n, values |-> <<v>>])

Unescape(text) == [i \in DOMAIN text |-> IF text[i] = "+" THEN " " ELSE text[i]]

Positions(text, c) == {i \in DOMAIN text : text[i] = c}

\* A piece between two "&": its name, and the value once an "=" was there.
Piece(vs) == [vars |-> vs, name |-> <<>>, value |-> <<>>, valued |-> FALSE]

PieceEnds(a) == AddVariable(a.vars, a.name, Unescape(a.value))

\* Every "=" begins the value anew.
StoreChar(a, c) ==
    CASE c = "=" -> [a EXCEPT !.value = <<>>, !.valued = TRUE]
      [] c = "&" -> Piece(PieceEnds(a))
      [] c \notin {"=", "&"} /\ a.valued -> [a EXCEPT !.value = Append(@, c)]
      [] OTHER -> [a EXCEPT !.name = Append(@, c)]

\* _httpd_storeData.
StoreData(vs, text) == PieceEnds(FoldLeft(StoreChar, Piece(vs), text))

-----------------------------------------------------------------------------

Nothing == [method |-> "", path |-> <<>>, form |-> FALSE, length |-> 0]

RequestInit ==
    /\ sent = [method |-> "", query |-> <<>>, headers |-> <<>>, form |-> <<>>]
    /\ wire = <<>> /\ buf = <<>> /\ broken = FALSE
    /\ phase = "idle"
    /\ line = <<>> /\ got = Nothing /\ body = <<>> /\ variables = <<>>
    /\ late = FALSE

Sends(r) ==
    /\ phase = "idle"
    /\ phase' = "first"
    /\ sent' = r
    /\ wire' = Text(r)
    /\ UNCHANGED <<buf, broken, late, output>>

Reading == phase \in {"first", "headers", "body"}

\* _httpd_net_read, into an empty buffer.
Read(k) ==
    /\ Reading /\ buf = <<>>
    /\ buf' = SubSeq(wire, 1, k)
    /\ wire' = SubSeq(wire, k + 1, Len(wire))
    /\ UNCHANGED <<sent, broken, late, phase, output>>

WantsBody(g) == g.form /\ g.length > 0

\* The readers return 0.  After a failed read the buffer holds zeros, of
\* which the body is made.
NoMore ==
    /\ phase' = IF phase # "body" /\ WantsBody(got) /\ ~broken' THEN "body" ELSE "store"
    /\ line' = <<>>
    /\ UNCHANGED <<got, body, variables>>

\* The end of the text, three seconds without data, or an error.
ReadFails ==
    /\ Reading /\ buf = <<>>
    /\ broken' \in BOOLEAN
    /\ late' = (late \/ broken' \/ wire # <<>>)
    /\ NoMore
    /\ UNCHANGED <<sent, wire, buf>>

\* The first line: a method of letters, and the path up to the next blank.
FirstLine(l) ==
    IF l # <<>> /\ l[1] \in {"GET", "POST"}
    THEN /\ got' = [got EXCEPT !.method = l[1], !.path = Tail(l)]
         /\ phase' = "headers"
         /\ UNCHANGED variables
    ELSE /\ phase' = "refused"
         /\ UNCHANGED <<got, variables>>

Header(l) ==
    /\ got' = CASE l = <<"form">> -> [got EXCEPT !.form = TRUE]
                [] l = <<"length">> -> [got EXCEPT !.length = Len(Encoded(sent.form))]
                [] OTHER -> got
    /\ variables' = IF l = <<"cookie">> THEN AddVariable(variables, <<"W">>, <<"3">>)
                    ELSE variables
    /\ phase' = IF l # <<>> THEN "headers" ELSE IF WantsBody(got) THEN "body" ELSE "store"

\* Mutant: the end of a line which just fits is taken for an empty line's.
BadLineEnds(l) == IF phase = "first" THEN FirstLine(l)
                  ELSE Header(IF Len(l) = LineMax - 1 THEN <<>> ELSE l)

LineEnds(l) == IF phase = "first" THEN FirstLine(l) ELSE Header(l)

\* _httpd_readLine: a line that reaches the limit is handed out without its end.
ReadLine(c) ==
    LET l == IF c = "\n" THEN line ELSE Append(line, c)
    IN  CASE c = "\r" -> UNCHANGED <<phase, output>>
          [] c = "\n" \/ (c # "\r" /\ Len(l) = LineMax) ->
                 line' = <<>> /\ LineEnds(l) /\ UNCHANGED body
          [] OTHER -> line' = l /\ UNCHANGED <<phase, got, body, variables>>

\* _httpd_readBuf.
ReadBuf(c) ==
    /\ body' = Append(body, c)
    /\ phase' = IF Len(body') = got.length THEN "store" ELSE "body"
    /\ UNCHANGED <<line, got, variables>>

ReadChar ==
    /\ Reading /\ buf # <<>>
    /\ buf' = Tail(buf)
    /\ IF phase = "body" THEN ReadBuf(Head(buf)) ELSE ReadLine(Head(buf))
    /\ UNCHANGED <<sent, wire, broken, late>>

\* The variables of the body, then those of the path.
Stored(vs, g, text) ==
    LET posted == IF WantsBody(g) THEN StoreData(vs, text) ELSE vs
        q == Positions(g.path, "?")
    IN  IF q = {} THEN posted
        ELSE StoreData(posted, SubSeq(g.path, Min(q) + 1, Len(g.path)))

Store ==
    /\ phase = "store"
    /\ phase' = "done"
    /\ variables' = Stored(variables, got, body)
    /\ UNCHANGED <<input, line, got, body>>

RequestNext ==
    \/ \E r \in Requests : Sends(r)
    \/ \E k \in 1..ReadMax : k <= Len(wire) /\ Read(k)
    \/ ReadFails \/ ReadChar \/ Store

RequestSpec == RequestInit /\ [][RequestNext]_requestVars

\* Mutant: the page does not need the first field.
BadSaves == /\ phase = "done"
            /\ Value(<<"cfg">>) = << <<"write">> >>
            /\ Value(<<"Submit">>) \in {<< <<"Save">> >>, << <<"Save", " ", "Reboot">> >>}

\* show_radmclient_list saves a form that has its button; without its first
\* field the child ends.
Saves == /\ phase = "done"
         /\ Value(<<"cfg">>) = << <<"write">> >>
         /\ Value(<<"Submit">>) \in {<< <<"Save">> >>, << <<"Save", " ", "Reboot">> >>}
         /\ Value(<<"W">>) # <<>>

-----------------------------------------------------------------------------
(* Properties.                                                             *)

\* What a form field is worth when nothing is lost: cookies come before the
\* body and the body before the query; without its length or its type the
\* body is not read.
Expected(n) ==
    LET has(h) == <<h>> \in ToSet(sent.headers)
        all == (IF has("cookie") THEN << <<"W", <<"3">>>> >> ELSE <<>>)
               \o (IF has("form") THEN sent.form ELSE <<>>) \o sent.query
        S == {i \in DOMAIN all : all[i][1] = n}
    IN  IF S = {} THEN <<>> ELSE <<all[Min(S)][2]>>

\* httpdReadRequest: however the network cuts a request into pieces, whose
\* lines all fit the buffer, the variables are those the browser sent.
SeesWhatWasSent ==
    phase = "done" /\ ~late /\ (\A h \in ToSet(sent.headers) : Len(h) < LineMax)
        => \A n \in {"W", "P", "Submit", "cfg"} : Value(<<n>>) = Expected(n)

\* show_radmclient_list: a form that is saved has the settings that were
\* sent, even when its text came too late, was cut off or had a header too
\* long for the buffer: a body that is read from too early on has lost its
\* first field, and as much of its end.  Only the button can lose its second
\* word.
SavedIsWhole == Saves => \A n \in {"W", "P", "cfg"} : Value(<<n>>) = Expected(n)
=============================================================================
