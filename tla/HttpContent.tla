----------------------------- MODULE HttpContent -----------------------------
(***************************************************************************)
(* What libhttpd serves (api.c, protocol.c): the tree of directories with  *)
(* their entries, which the program adds one by one, and how a request     *)
(* that was read is answered in between.  An answer is what is written to  *)
(* the browser: a head, named by its code, and parts of a body.  The child *)
(* that answers ends with it (WebServer): nothing is left for the next.    *)
(*                                                                         *)
(* An entry is [dir, name, type, index, preload, there]: preload is what   *)
(* the program's own function says, there whether a file exists.  The path *)
(* of a request is a directory and a name; since says that the browser has *)
(* what the server has.                                                    *)
(***************************************************************************)
EXTENDS Naturals, Sequences, SequencesExt, FiniteSetsExt

CONSTANTS Pages,      \* entries the program may add
          Folders,    \* names of directories
          Asked,      \* requests
          ErrorPages, \* handlers of errors: what each writes
          MaxPages    \* bound: entries added

ASSUME PagesAssumption ==
    \A e \in Pages : /\ e.dir \in Seq(Folders)
                     /\ e.type \in {"C_FUNCT", "C_WILDCARD", "FILE", "WILDCARD", "STATIC"}

VARIABLES content, \* the tree: the list of entries of each directory
          added    \* history: the entries in the order of the calls

contentVars == <<content, added>>

-----------------------------------------------------------------------------
(* Adding.                                                                 *)

Wild(e) == e.type \in {"C_WILDCARD", "WILDCARD"}

\* _httpd_findContentDir: the directories on the way to dir that are missing
\* are made.
WithDir(tree, dir) ==
    [p \in DOMAIN tree \cup Prefixes(dir) |-> IF p \in DOMAIN tree THEN tree[p] ELSE <<>>]

\* Mutant: a new entry goes to the end of the list.
BadAddContent(tree, e) == [WithDir(tree, e.dir) EXCEPT ![e.dir] = Append(@, e)]

\* httpdAddFileContent and its four sisters: the entry goes to the front of the
\* list of its directory.
AddContent(tree, e) == [WithDir(tree, e.dir) EXCEPT ![e.dir] = <<e>> \o @]

\* Before anything was added there is the root, which is empty.
Root == [p \in {<<>>} |-> <<>>]

ContentInit == content = Root /\ added = <<>>

Adds(e) ==
    /\ Len(added) < MaxPages
    /\ content' = AddContent(content, e)
    /\ added' = Append(added, e)

ContentNext == \E e \in Pages : Adds(e)

ContentSpec == ContentInit /\ [][ContentNext]_contentVars

-----------------------------------------------------------------------------
(* Finding: a sequence of at most one entry.                               *)

FindContentDir(tree, dir) == IF dir \in DOMAIN tree THEN <<tree[dir]>> ELSE <<>>

\* A directory is asked for with the empty name.
Fits(e, name) == Wild(e) \/ (name = "" /\ e.index) \/ e.name = name

FindContentEntry(es, name) ==
    LET fit == {i \in DOMAIN es : Fits(es[i], name)}
    IN  IF fit = {} THEN <<>> ELSE <<es[Min(fit)]>>

-----------------------------------------------------------------------------
(* Writing.  out is what has been written, code the response that is set.  *)

\* _httpd_sendHeaders, at most once.
SendHeaders(out, code) == IF out = <<>> THEN <<code>> ELSE out

\* httpdOutput, httpdPrintf and httpdWrite send the headers if nobody has.
Output(out, code) == Append(SendHeaders(out, code), "text")

\* _httpd_send304, _httpd_send404: a handler of the program (httpdSetErrorFunction)
\* writes its own page, or nothing.
SendError(code, errors) ==
    IF code \in DOMAIN errors THEN (IF errors[code] = "page" THEN Output(<<>>, code) ELSE <<>>)
    ELSE IF code = "304" THEN SendHeaders(<<>>, code)
    ELSE Output(SendHeaders(<<>>, code), code)

\* httpdSendFile, _httpd_sendFile.
SendFile(e, r, errors) ==
    IF ~e.there THEN SendError("404", errors)
    ELSE IF r.since THEN SendError("304", errors)
    ELSE Append(SendHeaders(<<>>, "200"), "text")

\* _httpd_sendStatic goes on after it sent "not modified".
SendStatic(r, errors) ==
    IF r.since THEN Output(SendError("304", errors), "304") ELSE Output(<<>>, "200")

\* The function of a page that asks for a login answers without one by 401.
Function(r) == Output(<<>>, IF r.login THEN "200" ELSE "401")

\* httpdProcessRequest.  A preload function that ends the request has its own
\* way to answer.
ProcessRequest(tree, r, errors) ==
    LET dir == FindContentDir(tree, r.dir)
        found == IF dir = <<>> THEN <<>> ELSE FindContentEntry(dir[1], r.name)
    IN  IF found = <<>> THEN SendError("404", errors)
        ELSE LET e == found[1]
             IN  CASE e.preload = "ends" -> <<>>
                   [] e.preload # "ends" /\ e.type \in {"C_FUNCT", "C_WILDCARD"} -> Function(r)
                   [] e.preload # "ends" /\ e.type \in {"FILE", "WILDCARD"} -> SendFile(e, r, errors)
                   [] OTHER -> SendStatic(r, errors)

-----------------------------------------------------------------------------

\* The entry that was added last among those a request fits is found, and
\* none only when it fits none.
LatestFound(r) ==
    LET dir == FindContentDir(content, r.dir)
        found == IF dir = <<>> THEN <<>> ELSE FindContentEntry(dir[1], r.name)
        S == {i \in DOMAIN added : added[i].dir = r.dir /\ Fits(added[i], r.name)}
    IN  found = IF S = {} THEN <<>> ELSE <<added[Max(S)]>>

\* What is written is one head and then the body, unless the program's own
\* function wrote the answer; "not modified" has a body for static data only.
AnswerFormed(r, errors) ==
    LET out == ProcessRequest(content, r, errors)
    IN  out # <<>> => /\ out[1] # "text" /\ \A i \in 2..Len(out) : out[i] = "text"
                      /\ out[1] = "304" /\ Len(out) > 1
                            => "304" \in DOMAIN errors \/ \E e \in ToSet(added) : e.type = "STATIC"

\* httpdAdd..., httpdProcessRequest: whatever was added so far, a request is
\* served by the entry added last among those it fits, and its answer is one
\* head and then a body.
LatestServed ==
    \A r \in Asked : LatestFound(r) /\ \A errors \in ErrorPages : AnswerFormed(r, errors)
=============================================================================
