---------------------------------- MODULE Har ----------------------------------
(***************************************************************************)
(* HAR files (internal/har; HAR of internal/daemon/backend.go; the classes *)
(* of media types of internal/mimeclass): flows exported with their bodies *)
(* and imported again.                                                     *)
(*                                                                         *)
(* A blob is [layer, content]: the bytes that were stored, encoded with    *)
(* layer or not ("").  An encoded one is one byte, which is no UTF-8.  A   *)
(* BodyRef has the blob itself as its hash, Nothing for none.  Times are   *)
(* Nat, in nanoseconds; 0 is the zero time, and -1 a phase that was not    *)
(* measured.  A path and a query are the sequences of their pieces: among  *)
(* them "?", "#", " ", "%20", "%41" (an A), "%" (an escape that is none)   *)
(* and "ctl" (a control character) are what they say, others plain text.   *)
(***************************************************************************)
EXTENDS Integers, Sequences, FiniteSets, SequencesExt

CONSTANTS
  MediaClasses,   \* media types, and the class of each (mimeclass.Of)
  DefaultPort,    \* http and https, and the port of each
  Short,          \* durations that are read as one less: the floats of an
                  \* entry are multiplied, and the product is cut off
  Nothing         \* nil

Header(h, name) == IF name \in DOMAIN h THEN h[name][1] ELSE ""
firstNonEmpty(a, b) == IF a # "" THEN a ELSE b

Of(mime) == IF mime = "" THEN "" ELSE IF mime \in DOMAIN MediaClasses THEN MediaClasses[mime] ELSE "bin"
IsTextual(class) == class \in {"json", "sse", "html", "js", "css", "form", "xml", "text", ""}

-----------------------------------------------------------------------------
(* Bodies of an export (exporter.body).                                    *)

\* view.Decode, and the bytes as they are when it fails.
Decoded(encoding, b) == IF encoding = b.layer THEN [b EXCEPT !.layer = ""] ELSE b

Bytes(b) == IF b.layer = "" THEN b.content ELSE <<"xff">>
Utf8(bytes) == ~Contains(bytes, "xff")

\* encodingOf: what the first flow with these bytes says of them.
encodingOf(flows, b) ==
  LET at(body) == {n \in DOMAIN flows : flows[n][body].hash = b}
      all == at("reqBody") \cup at("respBody")
      n == CHOOSE n \in all : \A k \in all : n <= k
  IN IF n \in at("reqBody") THEN flows[n].reqBody.encoding ELSE flows[n].respBody.encoding

hasBody(ref) == ref.size > 0 \/ ref.captured > 0 \/ ref.hash # Nothing

\* The text of a body: its bytes, as base64 or as they are; and what its encoding says.
NoText == [text |-> [b64 |-> FALSE, bytes |-> <<>>], encoding |-> "", decodedSize |-> -1]

\* opts is [cap, redact]: the redactor is left to module Summary, what it masks to a set
\* of contents here.  MaxBodyBytes < 0 leaves every body out.
ExportedBody(flows, ref, mime, opts) ==
  IF opts.cap < 0 \/ ref.hash = Nothing THEN NoText
  ELSE LET b == Bytes(Decoded(encodingOf(flows, ref.hash), ref.hash))
           inline == IsTextual(Of(mime)) /\ Utf8(b)
       IN IF Len(b) > opts.cap THEN [NoText EXCEPT !.decodedSize = Len(b)]
          ELSE [text |-> [b64 |-> ~inline,
                          bytes |-> IF inline /\ b \in opts.redact THEN <<"masked">> ELSE b],
                encoding |-> IF inline THEN "" ELSE "base64", decodedSize |-> Len(b)]

-----------------------------------------------------------------------------
(* Phases (timings, ms; importTiming).                                     *)

Micro == 1000
Milli == 1000000

\* Rounded to microseconds.
ms(d) == IF d < 0 THEN 0 ELSE ((d + Micro \div 2) \div Micro) * Micro

timings(t) ==
  LET dns  == IF t.dns = 0 THEN t.start ELSE t.dns
      conn == IF t.tls # 0 THEN t.tls ELSE IF t.connected # 0 THEN t.connected ELSE dns
      sent == IF t.wrote = 0 THEN conn ELSE t.wrote
      got  == IF t.first = 0 THEN sent ELSE t.first
  IN
  [blocked |-> -1,
   dns     |-> IF t.dns = 0 THEN -1 ELSE ms(dns - t.start),
   connect |-> IF t.connected = 0 /\ t.tls = 0 THEN -1 ELSE ms(conn - dns),
   ssl     |-> IF t.connected = 0 \/ t.tls = 0 THEN -1 ELSE ms(t.tls - t.connected),
   send    |-> IF t.wrote = 0 THEN -1 ELSE ms(sent - conn),
   wait    |-> IF t.first = 0 THEN -1 ELSE ms(got - sent),
   receive |-> IF t.end = 0 \/ t.first = 0 THEN -1 ELSE ms(t.end - got),
   total   |-> IF t.end = 0 THEN -1 ELSE ms(t.end - t.start)]

\* time.Duration of a number of an entry.
Back(v) == IF v \in Short THEN v - 1 ELSE v
after(cursor, v) == IF v < 0 THEN cursor ELSE cursor + Back(v)
told(v, moment) == IF v < 0 THEN 0 ELSE moment

\* Mutant: the handshake is counted on top of the connection it is part of.
importTimingTwice(start, tm) ==
  LET dns  == after(after(start, tm.blocked), tm.dns)
      conn == after(after(dns, tm.connect), tm.ssl)
      sent == after(conn, tm.send)
      got  == after(sent, tm.wait)
  IN
  [start |-> start, dns |-> told(tm.dns, dns), connected |-> told(tm.connect, conn),
   tls |-> told(tm.ssl, conn), wrote |-> told(tm.send, sent), first |-> told(tm.wait, got),
   end |-> IF tm.total > 0 THEN start + Back(tm.total) ELSE 0]

importTiming(start, tm) ==
  LET dns  == after(after(start, tm.blocked), tm.dns)
      conn == after(dns, tm.connect)
      sent == after(conn, tm.send)
      got  == after(sent, tm.wait)
  IN
  [start |-> start, dns |-> told(tm.dns, dns),
   connected |-> told(tm.connect, IF tm.ssl < 0 THEN conn ELSE conn - Back(tm.ssl)),
   tls |-> IF tm.connect < 0 THEN 0 ELSE told(tm.ssl, conn),
   wrote |-> told(tm.send, sent), first |-> told(tm.wait, got),
   end |-> IF tm.total > 0 THEN start + Back(tm.total)
           ELSE IF tm.receive >= 0 THEN got + Back(tm.receive)
           ELSE IF tm.total = 0 THEN start ELSE 0]

TTFB(t) == IF t.first = 0 THEN 0 ELSE t.first - t.start
Total(t, now) == IF t.end = 0 THEN now - t.start ELSE t.end - t.start

-----------------------------------------------------------------------------
(* Addresses (Flow.URL, setURL, url.Parse).  "::1" stands for any IPv6     *)
(* address: it is written without brackets, and not read (since Go 1.26,   *)
(* url.Parse takes no colon in a host but the one before its port).        *)

\* The text of an address: its path, which was decoded, is written as it is.
URL(f) ==
  [scheme |-> f.scheme, host |-> f.host,
   port |-> IF f.scheme \in DOMAIN DefaultPort /\ f.port \notin {0, DefaultPort[f.scheme]}
            THEN f.port ELSE Nothing,
   rest |-> f.path \o (IF f.query = <<>> THEN <<>> ELSE <<"?">> \o f.query)]
Verbatim(u) ==
  <<u.scheme, "://", u.host>> \o (IF u.port = Nothing THEN <<>> ELSE <<":", ToString(u.port)>>) \o u.rest

\* strings.Cut: what stands before the first mark, and what after it.
CutAt(s, mark) ==
  IF mark \notin ToSet(s) THEN <<s, <<>>>>
  ELSE LET n == CHOOSE n \in DOMAIN s : s[n] = mark /\ \A k \in 1..(n - 1) : s[k] # mark
       IN  <<SubSeq(s, 1, n - 1), SubSeq(s, n + 1, Len(s))>>

\* EscapedPath: a path that is no valid encoding is encoded anew.
Anew(piece) == IF piece = " " THEN "%20" ELSE IF piece = "%41" THEN "A" ELSE piece
Escaped(path) == IF " " \in ToSet(path) THEN [n \in DOMAIN path |-> Anew(path[n])] ELSE path

Plain(scheme) == CASE scheme = "ws" -> "http" [] scheme = "wss" -> "https" [] OTHER -> scheme

\* url.Parse fails.
Unread(u) ==
  LET whole == CutAt(u.rest, "#") IN
  \/ u.scheme = ""
  \/ "ctl" \in ToSet(whole[1]) \/ "%" \in ToSet(CutAt(whole[1], "?")[1]) \cup ToSet(whole[2])
  \/ u.host = "::1"

\* setURL, of the address of an entry: [scheme, host, port, path, query, kind].
ReadURL(u) ==
  IF Unread(u)
  THEN [scheme |-> "", host |-> "", port |-> 0, path |-> Verbatim(u), query |-> <<>>, kind |-> "http"]
  ELSE LET scheme == Plain(u.scheme)
           asked == CutAt(CutAt(u.rest, "#")[1], "?")
       IN [scheme |-> scheme, host |-> u.host,
           port |-> IF u.port # Nothing THEN u.port
                    ELSE IF scheme \in DOMAIN DefaultPort THEN DefaultPort[scheme] ELSE 0,
           path |-> Escaped(asked[1]), query |-> asked[2],
           kind |-> IF u.scheme # scheme THEN "ws" ELSE "http"]

-----------------------------------------------------------------------------
(* Entries.  A map of headers is a function to the sequences of values.    *)

Inferred(kind) == CASE kind = "tunnel" -> "CONNECT" [] kind = "ws" -> "GET" [] OTHER -> ""

\* opts.secret: the headers that are masked; opts.words: the values that are, in any other.
RedactHeaders(h, opts) ==
  [name \in DOMAIN h |->
     [n \in DOMAIN h[name] |-> IF name \in opts.secret \/ h[name][n] \in opts.words THEN "masked" ELSE h[name][n]]]

\* exporter.entry
Entry(flows, f, opts) ==
  LET reqH == RedactHeaders(f.reqH, opts)
      respH == RedactHeaders(f.respH, opts)
      reqMime == firstNonEmpty(Header(reqH, "Content-Type"), f.reqBody.mime)
      respMime == firstNonEmpty(Header(respH, "Content-Type"), f.respBody.mime)
      post == ExportedBody(flows, f.reqBody, reqMime, opts)
      content == IF hasBody(f.respBody) THEN ExportedBody(flows, f.respBody, respMime, opts) ELSE NoText
  IN
  [method |-> firstNonEmpty(f.method, Inferred(f.kind)), url |-> URL(f), queryString |-> f.query,
   proto |-> f.proto,
   respProto |-> firstNonEmpty(f.upProto, f.proto), client |-> f.client, status |-> f.status,
   reqH |-> reqH, respH |-> respH, start |-> f.t.start - (f.t.start % Milli), timings |-> timings(f.t),
   reqSize |-> f.reqBody.size, respSize |-> f.respBody.size,
   post |-> IF hasBody(f.reqBody) THEN [mime |-> reqMime, text |-> post.text, encoding |-> post.encoding]
            ELSE Nothing,
   content |-> [mime |-> respMime, text |-> content.text, encoding |-> content.encoding,
                size |-> IF content.decodedSize >= 0 THEN content.decodedSize ELSE f.respBody.size],
   chromeError |-> "",
   pano |-> [kind |-> f.kind, state |-> f.state, session |-> f.session, error |-> f.error,
             tags |-> f.tags, reqTruncated |-> f.reqBody.truncated,
             respTruncated |-> f.respBody.truncated, replay |-> f.replay]]

\* headerMap: an HTTP/2 pseudo-header is no header.
headerMap(h) == [name \in {name \in DOMAIN h : name \notin {"", ":method", ":path"}} |-> h[name]]

\* decodeBody: text that is base64, and said to be, is read; any other is what it is.
decodeBody(text, encoding) ==
  IF text.b64 /\ encoding # "base64" THEN <<"base64 of", text.bytes>> ELSE text.bytes

bodyRef(b, mime, contentType, declared, wire) ==
  [size |-> IF declared > 0 THEN declared ELSE IF wire > 0 THEN wire ELSE Len(b),
   captured |-> Len(b), hash |-> Nothing, mime |-> firstNonEmpty(mime, contentType),
   encoding |-> "", truncated |-> FALSE]
NoBody == [size |-> 0, captured |-> 0, hash |-> Nothing, mime |-> "", encoding |-> "", truncated |-> FALSE]

\* What an entry of another program is taken for.
Guessed(e, method, kind, reqH) ==
  [kind |-> IF method = "CONNECT" THEN "tunnel"
            ELSE IF e.status = 101 \/ Header(reqH, "Upgrade") = "websocket" THEN "ws"
            ELSE kind,
   state |-> "", session |-> "", error |-> e.chromeError, tags |-> <<>>,
   reqTruncated |-> FALSE, respTruncated |-> FALSE, replay |-> FALSE]

Note(e) ==
  IF e.pano # Nothing THEN e.pano ELSE Guessed(e, e.method, ReadURL(e.url).kind, headerMap(e.reqH))

\* The bytes of the two bodies, and the bodies they are of.
Sent(e) == IF e.post = Nothing THEN <<>> ELSE decodeBody(e.post.text, e.post.encoding)
Got(e) == decodeBody(e.content.text, e.content.encoding)
Req(e) ==
  LET type == Header(headerMap(e.reqH), "Content-Type")
      req == IF e.post # Nothing THEN bodyRef(Sent(e), e.post.mime, type, 0, e.reqSize)
             ELSE IF e.reqSize > 0 THEN bodyRef(<<>>, "", type, 0, e.reqSize)
             ELSE NoBody
  IN [req EXCEPT !.truncated = Note(e).reqTruncated]
Resp(e) ==
  LET type == Header(headerMap(e.respH), "Content-Type")
      resp == IF Got(e) # <<>> \/ e.content.size > 0 \/ e.respSize > 0
              THEN bodyRef(Got(e), e.content.mime, type, e.content.size, e.respSize) ELSE NoBody
  IN [resp EXCEPT !.truncated = Note(e).respTruncated]

\* importEntry: [flow, reqBody, respBody].
importEntry(e) ==
  LET url == ReadURL(e.url)
      p   == Note(e)
  IN
  [reqBody |-> Sent(e), respBody |-> Got(e),
   flow |-> [method |-> e.method, proto |-> e.proto, client |-> e.client, status |-> e.status,
             upProto |-> IF e.respProto = e.proto THEN "" ELSE e.respProto,
             scheme |-> url.scheme, host |-> url.host, port |-> url.port, path |-> url.path, query |-> url.query,
             reqH |-> headerMap(e.reqH), respH |-> headerMap(e.respH), t |-> importTiming(e.start, e.timings),
             kind |-> IF p.kind # "" THEN p.kind ELSE url.kind,
             state |-> IF p.error # "" /\ p.state \in {"", "done"} THEN "failed"
                       ELSE IF p.state # "" THEN p.state ELSE "done",
             session |-> p.session, error |-> p.error, tags |-> p.tags, replay |-> p.replay,
             reqBody |-> Req(e), respBody |-> Resp(e)]]

\* Daemon.HAR, import: the bodies are stored as they are.
Stored(item, session) ==
  LET keep(ref, b) ==
        IF b = <<>> THEN ref
        ELSE [ref EXCEPT !.hash = [layer |-> "", content |-> b], !.captured = Len(b), !.encoding = ""]
  IN [item.flow EXCEPT !.session = session, !.state = "done", !.tags = Append(@, "imported"),
                       !.reqBody = keep(@, item.reqBody), !.respBody = keep(@, item.respBody)]

-----------------------------------------------------------------------------
(* What a client may rely on.                                              *)

Whole(ref) == IF ref.hash = Nothing THEN <<>>
              ELSE IF ref.encoding = ref.hash.layer THEN ref.hash.content ELSE Bytes(ref.hash)
Plainly(h, opts) ==
  /\ DOMAIN h \cap (opts.secret \cup {"", ":method", ":path"}) = {}
  /\ \A name \in DOMAIN h : ToSet(h[name]) \cap opts.words = {}
Ordered(t) ==
  LET marks == <<t.start, t.dns, t.connected, t.tls, t.wrote, t.first, t.end>> IN
  \A i, j \in 1..7 : i < j /\ marks[i] # 0 /\ marks[j] # 0 => marks[i] <= marks[j]

\* A duration that was told in a number of phases, each rounded, and cut off, on its own.
Near(d, e, phases) == LET off == phases * (Micro \div 2 + 1) IN d - e <= off /\ e - d <= off

\* A path and a query that are written as what they are.
Safe(f) ==
  /\ ToSet(f.path) \cap {"?", "#", "%", " ", "ctl"} = {}
  /\ ToSet(f.query) \cap {"#", "ctl"} = {}

\* import.go: "TTFB and totals survive a round trip", bodies "are returned decoded".
\* A flow that is exported unredacted and imported again is the same exchange: the same
\* request and response, with the same bytes, and the same times but for the rounding of
\* its phases, as long as they were measured in their order.  Its address is the same as
\* long as it was of http or https and can be read as it is written; one that cannot be
\* read is kept to the letter, in the path.  An encoding is looked up by the bytes that
\* were stored: a response that shares them with its request must share its encoding.
RoundTripTrue(f, opts) ==
  LET e == Entry(<<f>>, f, opts)
      g == importEntry(e)
      fits(ref) == ref.hash # Nothing /\ Len(Whole(ref)) <= opts.cap
      alike == f.reqBody.hash = f.respBody.hash => f.reqBody.encoding = f.respBody.encoding
  IN
  /\ f.host # "::1" /\ f.scheme # "" /\ Safe(f) =>
       /\ <<g.flow.scheme, g.flow.host, g.flow.path, g.flow.query>> = <<f.scheme, f.host, f.path, f.query>>
       /\ f.scheme \in DOMAIN DefaultPort /\ f.port # 0 => g.flow.port = f.port
  /\ Unread(e.url) => g.flow.scheme = "" /\ g.flow.path = Verbatim(e.url)
  /\ ~Unread(e.url) => g.flow.scheme = f.scheme /\ g.flow.host = f.host
  /\ g.flow.kind = f.kind /\ g.flow.status = f.status
  /\ f.method # "" => g.flow.method = f.method
  /\ Plainly(f.reqH, opts) => g.flow.reqH = f.reqH
  /\ Plainly(f.respH, opts) => g.flow.respH = f.respH
  /\ opts.redact = {} /\ fits(f.reqBody) => g.reqBody = Whole(f.reqBody)
  /\ opts.redact = {} /\ fits(f.respBody) /\ alike => g.respBody = Whole(f.respBody)
  /\ ~fits(f.reqBody) /\ f.reqBody.size > 0 => g.flow.reqBody.size = f.reqBody.size
  /\ \A m \in {"dns", "wrote", "first", "end"} : g.flow.t[m] = 0 <=> f.t[m] = 0
  /\ Ordered(f.t) => /\ Near(TTFB(g.flow.t), TTFB(f.t), 4)
                     /\ f.t.end # 0 => Near(Total(g.flow.t, 0), Total(f.t, 0), 1)

\* What was imported is exported as it was: a capture that is passed on again and again
\* is the same file (only its flows are marked, and belong to the last session), as long as
\* its addresses could be read.  Of a masked text this is not so: it has another size than
\* the text it stands for, and may no longer be within the limit.
StableTrue(f, opts) ==
  LET again(fl) == Stored(importEntry(Entry(<<fl>>, fl, opts)), "here")
      plain(ref) == IF opts.redact = {} THEN ref ELSE NoBody
      mark(fl) == [fl EXCEPT !.tags = <<>>, !.reqBody = plain(@), !.respBody = plain(@),
                             !.t = <<@.start, timings(@)>>]
  IN ~Unread(URL(f)) => mark(again(again(f))) = mark(again(f))

\* What is masked in the headers and in the texts of a file stays masked in the files that
\* are made of it, whether anything is masked in them or not; and masking them changes
\* nothing else.  (An address, its query and an error are written as they are.)
MaskedTrue(f, opts) ==
  LET bareOpts == [opts EXCEPT !.secret = {}, !.words = {}, !.redact = {}]
      e == Entry(<<f>>, f, opts)
      g == Stored(importEntry(e), "here")
      later == Entry(<<g>>, g, bareOpts)
      bare == Entry(<<f>>, f, bareOpts)
      Hidden(x) ==
        /\ \A h \in {x.reqH, x.respH} : \A name \in DOMAIN h :
             \A n \in DOMAIN h[name] : name \in opts.secret \/ h[name][n] \in opts.words => h[name][n] = "masked"
        /\ x.content.encoding = "" => x.content.text.bytes \notin opts.redact
        /\ x.post # Nothing /\ x.post.encoding = "" => x.post.text.bytes \notin opts.redact
  IN
  /\ Hidden(e) /\ Hidden(later)
  /\ \A k \in DOMAIN e \ {"reqH", "respH", "post", "content"} : e[k] = bare[k]
=============================================================================
