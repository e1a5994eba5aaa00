-------------------------------- MODULE Rest --------------------------------
(***************************************************************************)
(* One resource of the REST framework (util/restful) and clients that are  *)
(* not all of the server's version: each decodes the document into its own *)
(* struct, changes that, and puts back the document it received with its   *)
(* own changes applied (putbackjson.go).  The server knows by the canary   *)
(* attribute that what it is sent was made from what it sent itself.       *)
(*                                                                         *)
(* A request is one step here; GDMService has the steps within it.         *)
(***************************************************************************)
EXTENDS Naturals, Sequences, FiniteSets

CONSTANTS
    Clients,
    Schema,      \* the struct of every client and of the "server"
    Docs,        \* the documents there can be to begin with
    Resources,   \* what a resource can respond to: sets of "get", "put", "delete"
    MaxRequests

VARIABLES
    caps,     \* what the resource responds to
    doc,      \* the server's value, or Absent
    held,     \* what each client's UpdateDeleter keeps
    reply,    \* the last reply, with the client and what it asked for
    requests

vars == <<caps, doc, held, reply, requests>>

-----------------------------------------------------------------------------
(* JSON: a document is a function on the paths in it, sequences of names.  *)
(* A path to a map has the value Object, any other what it leads to.  A    *)
(* struct's type lists the paths of its fields: `omit` are the ones with   *)
(* omitempty, `sub` the nested structs, with their own fields beside them. *)

Zero == "zero"
Object == "object"
Fields(s) == s.plain \cup s.omit \cup s.sub

(* json.Unmarshal into a struct: what it does not know is dropped, what is *)
(* not there stays zero.                                                   *)
Decode(s, v) ==
    [p \in Fields(s) |-> CASE p \in s.sub -> Object
                           [] p \in DOMAIN v \ s.sub -> v[p]
                           [] OTHER -> Zero]
Encode(s, v) == [p \in {p \in Fields(s) : p \in s.omit => v[p] # Zero} |-> v[p]]

Same(left, right) == left = right

(* applyChanges goes down along p as long as both sides have a map, and    *)
(* decides at the first place where they do not.                           *)
Decider(base, changed, p) ==
    LET Descends(q) == /\ q \in DOMAIN base /\ base[q] = Object
                       /\ q \in DOMAIN changed /\ changed[q] = Object
        Upto(n) == SubSeq(p, 1, n)
        last == CHOOSE n \in 1..Len(p) :
                    /\ \A k \in 1..(n - 1) : Descends(Upto(k))
                    /\ n < Len(p) => ~Descends(Upto(n))
    IN  Upto(last)

(* What is set in `changed` and is new to `base` or differs from it is set *)
(* in `target`, maps key by key; what `base` has and `changed` has not is  *)
(* deleted.  The rest of `target` stays.                                   *)
ApplyChanges(base, changed, target) ==
    LET Sets(q) == /\ q \in DOMAIN changed
                   /\ q \in DOMAIN base => changed[q] = Object \/ ~Same(base[q], changed[q])
        Deletes(q) == q \in DOMAIN base \ DOMAIN changed
        set == {p \in DOMAIN changed : Sets(Decider(base, changed, p))}
        stay == {p \in DOMAIN target : LET q == Decider(base, changed, p)
                                       IN  ~Sets(q) /\ ~Deletes(q)}
    IN  [p \in set \cup stay |-> IF p \in set THEN changed[p] ELSE target[p]]

PutbackMutant(original, base, changed) ==
    [p \in DOMAIN changed \cup {p \in DOMAIN original : <<p[1]>> \notin DOMAIN changed} |->
        IF p \in DOMAIN changed THEN changed[p] ELSE original[p]]
PutbackJSON(original, base, changed) == ApplyChanges(base, changed, original)

-----------------------------------------------------------------------------
(* The server.                                                             *)

Server == Schema["server"]
Absent == <<>>

(* A struct's fields lie in nested structs of its own, and a path that     *)
(* leads to a nested struct in one version is no plain field in another.   *)
(* The server always has something to render.                              *)
Structs == {Schema[a] : a \in Clients \cup {"server"}}
SchemaAssumption ==
    /\ \A s \in Structs : \A p \in Fields(s) :
          p \in Seq(STRING) \ {<<>>} /\ \A n \in 1..(Len(p) - 1) : SubSeq(p, 1, n) \in s.sub
    /\ \A s, o \in Structs : s.sub \cap (o.plain \cup o.omit) = {}
    /\ Fields(Server) \ Server.omit # {}
    /\ \A d \in Docs : /\ d = [p \in Fields(Server) |-> d[p]]
                      /\ \A p \in Server.sub : d[p] = Object
Present == doc # Absent

(* renderData: the Etag is a digest of the encoding, and the name of the   *)
(* canary attribute that is put into it.  No client has a field of that    *)
(* name.                                                                   *)
Rendered == Encode(Server, doc)
Etag == Rendered
NoEtag == <<>>

(* The handlers that BuildRouter installs, and what OPTIONS lists.         *)
Installed ==
    {"OPTIONS"} \cup (IF "get" \in caps THEN {"GET", "HEAD"} ELSE {})
    \cup (IF "put" \in caps THEN {"PUT"} ELSE {})
    \cup (IF "delete" \in caps THEN {"DELETE"} ELSE {})
DefaultOptions ==
    {"OPTIONS"} \cup (IF "get" \in caps THEN {"GET", "HEAD"} ELSE {})
    \cup (IF "put" \in caps THEN {"PUT"} ELSE {})
    \cup (IF "delete" \in caps THEN {"DELETE"} ELSE {})

GetStatus ==
    IF "GET" \notin Installed THEN "405" ELSE IF Present THEN "200" ELSE "404"

ValidCanary(body, etag) == body.canary = etag

(* A precondition must be given; If-None-Match: * needs a resource that is *)
(* not found, or cannot be had; If-Match needs its Etag, and the canary.   *)
PutStatus(body, match) ==
    IF "PUT" \notin Installed THEN "405"
    ELSE IF match = "none" THEN "428"
    ELSE IF match = "star" /\ GetStatus \notin {"404", "405"} THEN "412"
    ELSE IF match = "etag" /\ (GetStatus # "200" \/ body.etag # Etag) THEN "412"
    ELSE IF match = "etag" /\ ~ValidCanary(body, Etag) THEN "400" ELSE "200"

-----------------------------------------------------------------------------
Nothing == [at |-> "nothing"]

Init ==
    /\ caps \in Resources
    /\ doc \in Docs \cup {Absent}
    /\ held = [c \in Clients |-> Nothing]
    /\ reply = [status |-> "none"]
    /\ requests = 0

Count == requests < MaxRequests /\ requests' = requests + 1 /\ UNCHANGED caps

(* The client may not hear of what became of its request.                  *)
Answer(status, lost) == IF lost THEN "error" ELSE status

(* RetrieveCtx: the document and its Etag, and the document as it comes    *)
(* back from the client's own struct.                                      *)
Retrieve(c) ==
    /\ Count
    /\ reply' = [status |-> GetStatus, by |-> c, what |-> "get"]
    /\ held' = [held EXCEPT ![c] =
                  IF GetStatus # "200" THEN Nothing ELSE
                    [at |-> "read", body |-> Rendered, canary |-> Etag, etag |-> Etag,
                     value |-> Decode(Schema[c], Rendered)]]
    /\ UNCHANGED doc

(* update: the request's body is made from readers that are at their end   *)
(* afterwards, whatever becomes of it.  The answer to a PUT has a body for *)
(* nobody, but its Etag is kept.                                           *)
Update(c, v, lost) ==
    /\ held[c].at = "read"
    /\ Count
    /\ LET body == [fields |-> PutbackJSON(held[c].body, Encode(Schema[c], held[c].value),
                                           Encode(Schema[c], v)),
                    canary |-> held[c].canary, etag |-> held[c].etag]
           status == PutStatus(body, "etag")
       IN  /\ doc' = IF status = "200" THEN Decode(Server, body.fields) ELSE doc
           /\ reply' = [status |-> Answer(status, lost), by |-> c, what |-> "put",
                        from |-> held[c].value, to |-> v]
    /\ held' = [held EXCEPT ![c] = [at |-> "spent", etag |-> held[c].etag]]

(* A second update from the same reading fails before it is sent.          *)
UpdateAgain(c) ==
    /\ held[c].at = "spent"
    /\ Count
    /\ reply' = [status |-> "EOF", by |-> c, what |-> "put"]
    /\ UNCHANGED <<doc, held>>

(* A body of the client's own making, as one without this library sends.   *)
PlainPut(c, v, match) ==
    /\ match = "etag" => held[c].at # "nothing"
    /\ Count
    /\ LET body == [fields |-> Encode(Schema[c], v), canary |-> NoEtag,
                    etag |-> IF match = "etag" THEN held[c].etag ELSE NoEtag]
           status == PutStatus(body, match)
       IN  /\ doc' = IF status = "200" THEN Decode(Server, body.fields) ELSE doc
           /\ reply' = [status |-> status, by |-> c, what |-> "plain", match |-> match]
    /\ UNCHANGED held

(* CreateCtx.                                                              *)
Create(c, v) == PlainPut(c, v, "star")

(* delete sends the Etag that it has, and DeleteHandling does not look.    *)
Delete(c) ==
    /\ held[c].at # "nothing"
    /\ Count
    /\ LET status == IF "DELETE" \notin Installed THEN "405"
                     ELSE IF Present THEN "204" ELSE "404"
       IN  /\ doc' = IF status = "204" THEN Absent ELSE doc
           /\ reply' = [status |-> status, by |-> c, what |-> "delete",
                        stale |-> Present /\ held[c].etag # Etag]
    /\ UNCHANGED held

Options(c) ==
    /\ Count
    /\ reply' = [status |-> "200", by |-> c, what |-> "options", methods |-> DefaultOptions]
    /\ UNCHANGED <<doc, held>>

(* The values of a client's struct that differ from v in one field.        *)
Edits(s, v) == {[v EXCEPT ![p] = a] : p \in s.plain \cup s.omit, a \in {Zero, "one"}}
Blank(c) == Decode(Schema[c], <<>>)

Next ==
    \E c \in Clients :
        \/ Retrieve(c)
        \/ held[c].at = "read" /\ \E v \in Edits(Schema[c], held[c].value) , lost \in BOOLEAN :
              Update(c, v, lost)
        \/ UpdateAgain(c)
        \/ \E v \in Edits(Schema[c], Blank(c)) :
              Create(c, v) \/ \E match \in {"none", "etag"} : PlainPut(c, v, match)
        \/ Delete(c) \/ Options(c)

Spec == Init /\ [][Next]_vars

-----------------------------------------------------------------------------
(* What the server has of the fields that a struct knows, or does not.     *)
Unknown(s, v) == [p \in DOMAIN v \ (s.plain \cup s.omit) |-> v[p]]

KeepsUnknown ==
    Present /\ doc' # Absent /\ doc' # doc /\ "get" \in caps =>
        Unknown(Schema[reply'.by], doc') = Unknown(Schema[reply'.by], doc)
SetsKnown ==
    reply'.status = "200" /\ reply'.what = "put" =>
        LET Known(d) == Decode(Schema[reply'.by], Encode(Server, d))
        IN  /\ Known(doc) = reply'.from
            /\ Known(doc') = Known(Decode(Server, reply'.to))

(* A replacement of a document that is there leaves what its author's      *)
(* version of the struct does not know as it was, however old the struct   *)
(* and whatever the author changed or cleared: "Fields that don't          *)
(* serialize ... are untouched" (putbackjson.go:16-18).  An update gives   *)
(* the fields that its author does know the values that were asked for, as *)
(* far as the server has them, and is made to what its author has read.    *)
PutbackIsExact == [][requests' # requests => KeepsUnknown /\ SetsKnown]_vars

-----------------------------------------------------------------------------
(* Said of the code by its comments or its use, and not so: see the README. *)

(* "captures the state of a retrieved resource so that it can be later     *)
(* deleted" (client.go:60): a deletion is of the state that was read.      *)
DeleteIsConditional ==
    reply.status = "204" => ~reply.stale
=============================================================================
