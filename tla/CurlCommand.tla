----------------------------- MODULE CurlCommand -----------------------------
(***************************************************************************)
(* A request copied as a cURL command and pasted back: toCurl of           *)
(* utils/curl.generator.ts, parseCurl of utils/curl.parser.ts, its dialog, *)
(* and loadFromCurl of hooks/useRequestBuilder.ts.                         *)
(*                                                                         *)
(* A text counts by what the parser's patterns may take it for: one that   *)
(* holds an address ("link"), a quote of either kind ("single", "double"), *)
(* or several spaces and lines ("spaced").                                 *)
(***************************************************************************)
EXTENDS Naturals, Sequences

CONSTANTS
  MaxEdits,   \* bound on what the user changes before copying
  MaxLater,   \* bound on what the user changes between copying and pasting
  None

VARIABLES
  editor,    \* the request in the editor
  edits,
  clip,      \* the command in the clipboard
  preview,   \* what the dialog read in it; None when it refused it or is closed
  open,
  copied,    \* history: the request that was copied
  pasted     \* history: the request was loaded from the command, into a form or not

curlVars == <<editor, edits, clip, preview, open, copied, pasted>>

Text == {"plain", "link", "single", "double"}

CurlAssumption == None \notin Text \cup {"spaced", "text", "form-data"}

Header == [key : {"x-any"}, scheme : {None}, text : Text, enabled : BOOLEAN]
            \cup [key : {"authorization"}, scheme : {"bearer", "digest"}, text : Text,
                  enabled : BOOLEAN]

Auth ==
  [type : {"none"}, in : {None}, text : {None}] \cup [type : {"bearer"}, in : {None}, text : Text]
    \cup [type : {"basic"}, in : {None}, text : {"plain"}]
    \cup [type : {"apikey"}, in : {"header", "query"}, text : Text]

NoAuth == [type |-> "none", in |-> None, text |-> None]

Init ==
  /\ editor = [method |-> "GET", base |-> "full", params |-> <<>>, headers |-> <<>>,
               body |-> None, bodyType |-> "text", auth |-> NoAuth]
  /\ edits = 0 /\ clip = None /\ preview = None /\ open = FALSE /\ copied = None
  /\ pasted = None

Edit(field, v) ==
  /\ ~open /\ pasted = None /\ edits < MaxEdits + (IF clip = None THEN 0 ELSE MaxLater)
  /\ editor' = [editor EXCEPT ![field] = v]
  /\ edits' = edits + 1
  /\ UNCHANGED <<clip, preview, open, copied, pasted>>

\* An address that starts with a variable is no URL yet.
UserEdits ==
  \/ Edit("method", "POST") \/ Edit("base", "variable") \/ Edit("bodyType", "form-data")
  \/ \E on \in BOOLEAN : Edit("params", Append(editor.params, [name |-> "a", enabled |-> on]))
  \/ \E h \in Header : Edit("headers", Append(editor.headers, h))
  \/ \E t \in Text \cup {"spaced"} : Edit("body", t)
  \/ \E a \in Auth : Edit("auth", a)

-----------------------------------------------------------------------------
\* filter of a list: its wanted items in their order, as a function that proofs can
\* unfold.
Kept(q, want) ==
  LET kept[i \in 0 .. Len(q)] ==
        IF i = 0 THEN <<>> ELSE IF want[i] THEN Append(kept[i - 1], q[i]) ELSE kept[i - 1]
  IN kept[Len(q)]

Filter(q, Test(_)) == Kept(q, [i \in DOMAIN q |-> Test(q[i])])

IsEnabled(x) == x.enabled

AuthHeaders(a) ==
  CASE a.type \in {"bearer", "basic"} ->
         <<[key |-> "authorization", scheme |-> a.type, text |-> a.text, enabled |-> TRUE]>>
    [] a.type = "apikey" /\ a.in = "header" ->
         <<[key |-> "api-key", scheme |-> None, text |-> a.text, enabled |-> TRUE]>>
    [] OTHER -> <<>>

\* Parameters go into the address when it is one; fields of a form do not go anywhere.
ToCurl(r) ==
  [method  |-> r.method,
   headers |-> AuthHeaders(r.auth) \o Filter(r.headers, IsEnabled),
   body    |-> r.body,
   base    |-> r.base,
   query   |-> IF r.base = "full" THEN Filter(r.params, IsEnabled) ELSE <<>>]

\* The first address anywhere in the command: the URL comes last.
ExtractUrl(c) ==
  IF c.body = "link" \/ \E i \in DOMAIN c.headers : c.headers[i].text = "link"
  THEN [base |-> "foreign", query |-> <<>>]
  ELSE IF c.base = "full" THEN [base |-> "full", query |-> c.query] ELSE None

\* A quote ends a text, or makes the pattern miss the header.
Cut(t) == IF t = "single" THEN "cut" ELSE t

ExtractHeaders(c) ==
  LET read == Filter(c.headers, LAMBDA h : h.text # "double")
  IN [i \in DOMAIN read |-> [read[i] EXCEPT !.text = Cut(@)]]

AuthorizationsOf(q) == Filter(q, LAMBDA h : h.key = "authorization")

\* Faulty variant: the header is kept beside the credentials.
AuthFromHeaderKept(q) ==
  LET auths == AuthorizationsOf(q) IN
  IF auths # <<>> /\ auths[1].scheme \in {"bearer", "basic"}
  THEN [auth |-> [type |-> auths[1].scheme, in |-> None, text |-> auths[1].text], headers |-> q]
  ELSE [auth |-> NoAuth, headers |-> q]

\* The first authorization header becomes the credentials, and none is kept then.
AuthFromHeader(q) ==
  LET auths == AuthorizationsOf(q) IN
  IF auths # <<>> /\ auths[1].scheme \in {"bearer", "basic"}
  THEN [auth |-> [type |-> auths[1].scheme, in |-> None, text |-> auths[1].text],
        headers |-> Filter(q, LAMBDA h : h.key # "authorization")]
  ELSE [auth |-> NoAuth, headers |-> q]

\* White space is one space, quoted or not.
ExtractBody(c) == CASE c.body = "spaced" -> "collapsed" [] OTHER -> Cut(c.body)

ParseCurl(c) ==
  LET url == ExtractUrl(c)
      found == AuthFromHeader(ExtractHeaders(c))
  IN IF url = None THEN None
     ELSE [method |-> c.method, base |-> url.base, params |-> url.query,
           headers |-> found.headers, auth |-> found.auth, body |-> ExtractBody(c)]

-----------------------------------------------------------------------------
HandleCurlExport ==
  /\ ~open /\ clip = None /\ pasted = None
  /\ clip' = ToCurl(editor) /\ copied' = editor
  /\ edits' = MaxEdits
  /\ UNCHANGED <<editor, preview, open, pasted>>

\* The preview comes with the text.
UpdateCurlInput ==
  /\ ~open /\ clip # None /\ pasted = None
  /\ open' = TRUE /\ preview' = ParseCurl(clip)
  /\ UNCHANGED <<editor, edits, clip, copied, pasted>>

CloseModal ==
  /\ open
  /\ open' = FALSE /\ preview' = None
  /\ UNCHANGED <<editor, edits, clip, copied, pasted>>

\* Everything but the kind of body, which stays as it was.
LoadFromCurl ==
  /\ open /\ preview # None
  /\ editor' = [f \in DOMAIN editor |-> IF f = "bodyType" THEN editor.bodyType ELSE preview[f]]
  /\ pasted' = editor.bodyType
  /\ open' = FALSE /\ preview' = None
  /\ UNCHANGED <<edits, clip, copied>>

Next == UserEdits \/ HandleCurlExport \/ UpdateCurlInput \/ CloseModal \/ LoadFromCurl

Spec == Init /\ [][Next]_curlVars

-----------------------------------------------------------------------------
\* What a request sends.
Sent(r) ==
  [method |-> r.method, base |-> r.base, auth |-> r.auth, body |-> r.body,
   params |-> Filter(r.params, IsEnabled), headers |-> Filter(r.headers, IsEnabled)]

\* Texts of a command that are read for what they are.
Harmless(c) ==
  /\ \A i \in DOMAIN c.headers : c.headers[i].text = "plain"
  /\ c.body \in {None, "plain", "double"}

\* Pasting its own command gives a request back as it was: method, address, enabled
\* parameters and headers, body and credentials.  Except for texts the patterns
\* misread, an address with a variable, an API key, an authorization header beside
\* other credentials (or in their place), and a request that is a form, or pasted
\* into one.
PastedAsCopied ==
  LET c == ToCurl(copied)
      exact == /\ Harmless(c) /\ copied.base = "full" /\ copied.bodyType = "text"
               /\ copied.auth.type # "apikey"
               /\ \A i \in DOMAIN copied.headers :
                    copied.headers[i].enabled => copied.headers[i].key # "authorization"
  IN pasted = "text" /\ exact => Sent(editor) = Sent(copied)

=============================================================================
