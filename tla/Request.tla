------------------------------ MODULE Request -------------------------------
(***************************************************************************)
(* What a session makes of the options of one request: the operators of    *)
(* headers.py and of request.py up to build_call, and what _build_request  *)
(* hands to the library.                                                   *)
(*                                                                         *)
(* A header is a record: `name` is the name folded to lower case, `shown`  *)
(* the way its sender spelled it.  Strings that nothing compares are model *)
(* values or one-word strings; query strings and forms are their pairs.    *)
(***************************************************************************)
EXTENDS Integers, FiniteSets, Sequences, SequencesExt

-----------------------------------------------------------------------------
(* Headers.                                                                *)

Header == [name : STRING, shown : STRING, value : STRING]

Names(pairs) == {pairs[i].name : i \in 1..Len(pairs)}

\* The pairs that stand under one of `names`, in order: get_list, and the two
\* comprehensions of with_defaults.
Among(pairs, names) ==
    LET kept[i \in 0..Len(pairs)] ==
            IF i = 0 THEN <<>>
            ELSE IF pairs[i].name \in names THEN Append(kept[i - 1], pairs[i])
            ELSE kept[i - 1]
    IN  kept[Len(pairs)]

\* Slip: an overridden name is emitted wherever the defaults repeat it.
WithDefaultsRepeated(own, defaults) ==
    LET Lay(acc, p) == acc \o IF p.name \in Names(own)
                              THEN Among(own, {p.name}) ELSE <<p>>
    IN  FoldLeft(Lay, <<>>, defaults)
            \o Among(own, Names(own) \ Names(defaults))

\* Headers.with_defaults: `own` laid over `defaults`.
WithDefaults(own, defaults) ==
    LET laid[i \in 0..Len(defaults)] ==
            IF i = 0 THEN [emitted |-> {}, result |-> <<>>]
            ELSE LET p == defaults[i]
                     acc == laid[i - 1]
                 IN  IF p.name \notin Names(own)
                     THEN [acc EXCEPT !.result = Append(@, p)]
                     ELSE IF p.name \in acc.emitted THEN acc
                     ELSE [emitted |-> acc.emitted \cup {p.name},
                           result |-> acc.result \o Among(own, {p.name})]
        end == laid[Len(defaults)]
    IN  end.result \o Among(own, Names(own) \ end.emitted)

\* The same, said without the loop.  A header's rank is the place its name has
\* in `defaults` (behind them all if it has none) and then its own place in
\* `own`; one of `defaults` has a rank unless `own` speaks for its name.
Place(name, defaults) ==
    CHOOSE i \in 1..(Len(defaults) + 1) :
        /\ i <= Len(defaults) => defaults[i].name = name
        /\ \A k \in 1..(i - 1) : defaults[k].name # name

Ranks(own, defaults) ==
    {<<i, 0>> : i \in {k \in 1..Len(defaults) : defaults[k].name \notin Names(own)}}
    \cup {<<Place(own[j].name, defaults), j>> : j \in 1..Len(own)}

UpTo(ranks, r) == {q \in ranks : q[1] < r[1] \/ (q[1] = r[1] /\ q[2] <= r[2])}

\* `merged` has every header of a rank in `ranks`, where that rank puts it.
InOrder(merged, ranks, own, defaults) ==
    /\ Len(merged) = Cardinality(ranks)
    /\ \A r \in ranks : merged[Cardinality(UpTo(ranks, r))] =
                            IF r[2] = 0 THEN defaults[r[1]] ELSE own[r[2]]

IsLaidOver(merged, own, defaults) ==
    InOrder(merged, Ranks(own, defaults), own, defaults)

StackOwned == {"accept-encoding", "accept-language", "host", "connection",
               "content-length"}

\* check_headers raises ValueError.
HeadersRefused(pairs) == Names(pairs) \cap StackOwned # {}

-----------------------------------------------------------------------------
(* The URL.                                                                *)

\* checked_url raises TypeError.
UrlRefused(url) == url.scheme \notin {"http", "https"} \/ ~url.host

\* with_query: parsed, extended and encoded again.
WithQuery(url, params) ==
    IF params = <<>> THEN url ELSE [url EXCEPT !.query = @ \o params]

-----------------------------------------------------------------------------
(* Credentials and bodies.                                                 *)

\* authorization(): at most one of the two, else TypeError.
AuthRefused(o) == o.auth = {"basic", "bearer"}

Authorization(o) == IF "basic" \in o.auth THEN "Basic"
                    ELSE IF "bearer" \in o.auth THEN "Bearer" ELSE ""

\* mimetypes.guess_type, as far as it matters: a type, or "" for none.
GuessType(filename) == IF filename = "note.txt" THEN "text/plain" ELSE ""

FilePart(spec) ==
    LET filename == IF spec.filename = "" THEN spec.field ELSE spec.filename
    IN  [field |-> spec.field, filename |-> filename,
         type |-> IF spec.type # "" THEN spec.type
                  ELSE IF GuessType(filename) # "" THEN GuessType(filename)
                  ELSE "application/octet-stream"]

\* encode_multipart: a part per field, then a part per file.  Boundaries and
\* quoting, which keep parts apart, are left out.
EncodeMultipart(fields, files) ==
    [i \in 1..Len(fields) |-> [field |-> fields[i], filename |-> "", type |-> ""]]
        \o [i \in 1..Len(files) |-> FilePart(files[i])]

\* encode_body raises TypeError: more than one kind of body, where only form
\* and files go together.  `given` holds the options that are not None.
BodyRefused(o) ==
    LET kinds == o.given \cap {"body", "form", "json"}
    IN  \/ \E a, b \in kinds : a # b
        \/ "files" \in o.given /\ kinds \notin {{}, {"form"}}

\* encode_body: the parts of the body and the media type it implies.
EncodeBody(o) ==
    IF "files" \in o.given
    THEN [type |-> "multipart/form-data",
          parts |-> EncodeMultipart(IF "form" \in o.given THEN o.fields ELSE <<>>,
                                    o.files)]
    ELSE IF "body" \in o.given THEN [type |-> "", parts |-> o.fields]
    ELSE IF "form" \in o.given
    THEN [type |-> "application/x-www-form-urlencoded", parts |-> o.fields]
    ELSE IF "json" \in o.given
    THEN [type |-> "application/json", parts |-> <<"json">>]
    ELSE [type |-> "", parts |-> <<>>]

-----------------------------------------------------------------------------
(* The call.                                                               *)

Priorities == {"throttled", "idle", "lowest", "low", "medium", "highest"}

\* The header build_call adds when nobody has spoken for its name.
Addition(merged, name, value) ==
    IF value = "" \/ name \in Names(merged) THEN <<>>
    ELSE <<[name |-> name, shown |-> name, value |-> value]>>

WithAdditions(merged, o, cookie) ==
    merged \o Addition(merged, "content-type", EncodeBody(o).type)
           \o Addition(merged, "authorization", Authorization(o))
           \o Addition(merged, "cookie", cookie)

\* _target and build_call, for a session with these default headers and a jar
\* that answers `cookie` ("" for none).
BuildCall(o, defaults, cookie, limit) ==
    [url |-> WithQuery(o.url, o.query),
     headers |-> WithAdditions(WithDefaults(o.headers, defaults), o, cookie),
     body |-> EncodeBody(o).parts,
     priority |-> IF o.priority = "" THEN "medium" ELSE o.priority,
     maxRedirects |-> limit]

\* _build_request: what the C struct says.  An empty body is no body.
BuildRequest(call) ==
    [headers |-> call.headers, url |-> call.url, hasBody |-> call.body # <<>>,
     priority |-> call.priority, maxRedirects |-> call.maxRedirects]

\* _build_request encodes names and values as latin-1, or raises.
NotLatin(pairs) == \E i \in 1..Len(pairs) : pairs[i].value = "non-latin"

\* check_options raises TypeError: a keyword request() does not have.
OptionsRefused(o) == o.unknown

\* The exception request() raises before anything is sent, "" for none: the
\* checks in the order they are made.
Refusal(o, defaults) ==
    IF OptionsRefused(o) THEN "TypeError"
    ELSE IF HeadersRefused(o.headers) THEN "ValueError"
    ELSE IF UrlRefused(o.url) \/ BodyRefused(o) \/ AuthRefused(o) THEN "TypeError"
    ELSE IF o.priority \notin Priorities \cup {""} THEN "ValueError"
    ELSE IF NotLatin(WithDefaults(o.headers, defaults)) THEN "UnicodeEncodeError"
    ELSE ""
=============================================================================
