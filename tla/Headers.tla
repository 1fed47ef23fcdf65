------------------------------- MODULE Headers -------------------------------
(***************************************************************************)
(* The headers the SDK carries as text: those an application gives to      *)
(* callH, those it finds in an incoming call, and those of a notification  *)
(* it passes on to the account.  Maps become strings with "," and ":" and  *)
(* are cut at them again, in Java and in C++, with different rules.        *)
(*                                                                         *)
(* The texts and how they are cut are in module Texts.                     *)
(***************************************************************************)
EXTENDS Texts

CONSTANTS Keys,        \* header names an application may give: words
          ValidKeys,   \* those that match VALID_HEADER_KEY_REGEX
          Values,      \* header values it may give: strings
          AnyCase,     \* the words that contain "X-PH" in any case
          AsSpelled,   \* those that contain it in capitals
          OtherLines,  \* lines of an INVITE that are not such headers: strings
          Uuids,       \* values of an X-CallUUID header: words
          PushValues,  \* values in a notification: strings
          Domain,      \* the proxy an account starts with
          None

Separators == {",", ":", " ", "\r", "\n"}
Words(s) == {s[i] : i \in DOMAIN s} \ Separators
Plain(s) == Words(s) = {s[i] : i \in DOMAIN s}

ASSUME HeadersAssumption ==
  /\ ValidKeys \subseteq Keys /\ ValidKeys \subseteq AnyCase /\ AsSpelled \subseteq AnyCase
  /\ IsFiniteSet(Keys) /\ Keys \cup Uuids \subseteq STRING \ Separators
  /\ "X-CallUUID" \notin ValidKeys
  /\ Values \cup PushValues \cup OtherLines \subseteq Seq(STRING)
  /\ IsFiniteSet(OtherLines)
  /\ \A l \in OtherLines :
       /\ l # <<>> /\ l[1] # "X-CallUUID"
       /\ \A i \in DOMAIN l : l[i] \notin {"\r", "\n"}
  /\ AnyCase \cap (Separators \cup {"INVITE", "X-CallUUID"} \cup Uuids) = {}

VARIABLES
  headers,       \* the map given to callH, once validated
  sent,          \* the header lines CallH adds to the INVITE
  msg_buf, uuid, \* an INVITE received, and the X-CallUUID in it
  header,        \* Incoming.java: the lines about X-PH
  xCallUUID,     \* SignallingStats.java
  reg_hdr_list, proxy,  \* pjsua: of the account registered last
  pushed,        \* history: the notification that was applied last to it
  follows,       \* what a behaviour follows: a call or the account, which share nothing
  outOfRange     \* history: the map in whose text a vector was read past its end

call == <<headers, sent>>
invite == <<msg_buf, uuid, header, xCallUUID>>
account == <<reg_hdr_list, proxy, pushed>>
vars == <<call, invite, account, follows, outOfRange>>

\* The keys of a Java map come in any order.
mapToString(map, order) ==
  Joined([i \in DOMAIN order |-> <<order[i], ":">> \o map[order[i]]], ",")

\* A piece without ":" is passed over; of two with one key the later counts.
stringToMap(s) ==
  LET pieces == Pieces(trim(s), ",")
      pairs == Selected(pieces, {n \in DOMAIN pieces : \E i \in DOMAIN pieces[n] : pieces[n][i] = ":"})
      Colon(kv) == SelectInSeq(kv, LAMBDA t : t = ":")
      Key(kv) == trim(SubSeq(kv, 1, Colon(kv) - 1))
      Value(kv) == trim(SubSeq(kv, Colon(kv) + 1, Len(kv)))
  IN  IF s = <<>> THEN None
      ELSE [k \in {Key(pairs[i]) : i \in DOMAIN pairs} |->
              Value(pairs[SelectLastInSeq(pairs, LAMBDA kv : Key(kv) = k)])]

\* Mutant: * for {1,120}
validValueEmpty(v) == Plain(v)

validValue(v) == v # <<>> /\ Plain(v)
\* Mutant: only the names are looked at.
validateCallHeadersNames(map) ==
  [k \in {k \in DOMAIN map : k \in ValidKeys} |-> map[k]]

validateCallHeaders(map) ==
  [k \in {k \in DOMAIN map : k \in ValidKeys /\ validValue(map[k])} |-> map[k]]

Maps(keys, values) == UNION {[K -> values] : K \in SUBSET keys}
NoMap == [k \in {} |-> <<>>]

Init ==
  /\ headers = NoMap /\ sent = <<>>
  /\ msg_buf = <<>> /\ uuid = None /\ header = <<>> /\ xCallUUID = <<>>
  /\ reg_hdr_list = <<>> /\ proxy = Domain /\ pushed = None
  /\ follows \in {"call", "account"}
  /\ outOfRange = None
------------------------------------------------------------------------------
\* The native CallH: its text is cut at "," and each piece at ":".  What a read past
\* the end leads to is not defined: no text is given to the native code after one.
CallH(map, order) ==
  LET pieces == split(mapToString(map, order), ",")
      pairs == [i \in DOMAIN pieces |-> split(pieces[i], ":")]
  IN  IF \A i \in DOMAIN pairs : Len(pairs[i]) >= 2
      THEN /\ sent' = [i \in DOMAIN pairs |-> <<pairs[i][1], pairs[i][2]>>]
           /\ UNCHANGED outOfRange
      ELSE /\ outOfRange' = map
           /\ sent' = <<>>

\* Outgoing.callH: headers that are not valid are left out of the call, not refused.
callH(given) ==
  LET valid == validateCallHeaders(given) IN
  /\ follows = "call" /\ outOfRange = None /\ headers = NoMap /\ msg_buf = <<>>
  /\ headers' = valid
  /\ \E order \in SetToSeqs(DOMAIN valid) : CallH(valid, order)
  /\ UNCHANGED <<invite, account, follows>>

\* The other side of the call: pjsip prints "name: value" and a line's end, and
\* the lines arrive in any order among others.
RequestLine == <<"INVITE">>
Line(name, value) == name \o <<":", " ">> \o value

EndOfLine == <<"\r", "\n">>

\* A pointer into the message, which goes on after the value: the header is found
\* by its name, which begins a line.
getXCallUUID(text) ==
  LET names == {i \in 2 .. Len(text) : text[i - 1] = "\n" /\ text[i] = "X-CallUUID"}
  IN  IF names = {} THEN <<>> ELSE SubSeq(text, Min(names) + 3, Len(text))

\* Mutant: the rest of the message is kept.
setXCallUUIDWhole(text) == text

\* cut at the end of the line
setXCallUUID(text) == Pieces(text, "\r")[1]

\* Mutant: the line as it is spelled.
MentionsAsSpelled(line) == \E i \in DOMAIN line : line[i] \in AsSpelled

\* find("X-PH") on the line in capitals
Mentions(line) == \E i \in DOMAIN line : line[i] \in AnyCase

on_incoming_call(lines) ==
  LET text == FlattenSeq([i \in DOMAIN lines |-> lines[i] \o EndOfLine])
      pieces == split(text, "\n")
      found == Selected(pieces, {i \in DOMAIN pieces : Mentions(pieces[i])})
  IN  /\ msg_buf' = text
      /\ header' = Joined(found, ",")
      /\ xCallUUID' = setXCallUUID(getXCallUUID(text))

Receive ==
  /\ follows = "call" /\ msg_buf = <<>>
  /\ \E u \in Uuids \cup {None}, other \in SUBSET OtherLines :
       LET own == {Line(sent[i][1], sent[i][2]) : i \in DOMAIN sent}
           id == IF u = None THEN {} ELSE {Line(<<"X-CallUUID">>, <<u>>)}
       IN  /\ uuid' = u
           /\ \E lines \in SetToSeqs(own \cup id \cup other) :
                on_incoming_call(<<RequestLine>> \o lines)
  /\ UNCHANGED <<call, account, follows, outOfRange>>

\* The next call has its own objects: nothing of the last one reaches it.
NextCall ==
  /\ msg_buf # <<>>
  /\ headers' = NoMap /\ sent' = <<>>
  /\ msg_buf' = <<>> /\ uuid' = None /\ header' = <<>> /\ xCallUUID' = <<>>
  /\ UNCHANGED <<account, follows, outOfRange>>

\* Incoming.getHeaderDict: null if the call came without such a line
getHeaderDict == stringToMap(header)
------------------------------------------------------------------------------
\* A login adds an account of its own, with the domain as its proxy and no headers.
LoginSip ==
  /\ follows = "account"
  /\ reg_hdr_list' = <<>> /\ proxy' = Domain /\ pushed' = None
  /\ UNCHANGED <<call, invite, follows, outOfRange>>

Required == {"label", "index", "registrar"}

\* Mutant: the old X-Index stays.
withoutOldLabel(list) == Selected(list, {i \in DOMAIN list : list[i][1] # "X-Label"})

withoutOld(list) ==
  Selected(list, {i \in DOMAIN list : list[i][1] \notin {"X-Label", "X-Index"}})

\* pjsua_verify_sip_url
ValidRegistrar(r) == r # <<>>

\* The value is what stands between the first and the second ":", if anything does.
\* Keys of the map other than the Required ones, which Push leaves out, are passed over.
relayVoipPushNotification(push) ==
  \E order \in SetToSeqs(DOMAIN push) :
    LET pieces == split(mapToString(push, order), ",")
        parts == [i \in DOMAIN pieces |-> split(pieces[i], ":")]
        value(k) ==
          LET last == SelectLastInSeq(parts, LAMBDA p : p[1] = <<k>>)
          IN  IF Len(parts[last]) = 1 THEN <<>> ELSE parts[last][2]
    IN  IF \E i \in DOMAIN parts : parts[i] = <<>>
        THEN /\ outOfRange' = push
             /\ UNCHANGED account
        ELSE IF ValidRegistrar(value("registrar"))
        THEN \/ /\ reg_hdr_list' = withoutOld(reg_hdr_list) \o
                     <<<<"X-Label", value("label")>>, <<"X-Index", value("index")>>>>
                /\ proxy' = value("registrar")
                /\ pushed' = push
                /\ UNCHANGED outOfRange
             \/ UNCHANGED <<account, outOfRange>>     \* pjsua_acc_modify refuses it
        ELSE UNCHANGED <<account, outOfRange>>

\* Endpoint.relayVoipPushNotification, after its test of the registration
Push(push) ==
  /\ follows = "account" /\ outOfRange = None
  /\ Required \subseteq DOMAIN push
  /\ relayVoipPushNotification(push)
  /\ UNCHANGED <<call, invite, follows>>

Next ==
  \/ \E given \in Maps(Keys, Values) : callH(given)
  \/ Receive
  \/ NextCall
  \/ LoginSip
  \/ \E push \in [Required -> PushValues] : Push(push)

Spec == Init /\ [][Next]_vars
------------------------------------------------------------------------------
\* The values of the variables; an X-CallUUID is kept as one word, or as none.
TypeOK ==
  /\ headers \in Maps(ValidKeys, {v \in Values : validValue(v)})
  /\ Len(sent) = Cardinality(DOMAIN headers)
  /\ uuid \in Uuids \cup {None} /\ Len(xCallUUID) <= 1
  /\ \A i \in DOMAIN header : header[i] # "\n"
  /\ pushed \in [Required -> PushValues] \cup {None}
  /\ \A i \in DOMAIN reg_hdr_list : reg_hdr_list[i][1] \in {"X-Label", "X-Index"}
  /\ follows \in {"call", "account"} /\ outOfRange \in [Required -> PushValues] \cup {None}

\* The other lines that speak of X-PH are headers of another name, without a ",".
OthersUnambiguous ==
  \A l \in OtherLines : Mentions(l) =>
    /\ Len(l) >= 2 /\ l[1] \notin ValidKeys \cup Separators /\ l[2] = ":"
    /\ \A i \in DOMAIN l : l[i] # ","

\* What one side gives to callH and the validation lets pass, the other finds in
\* getHeaderDict, name by name and value by value, wherever the lines stand; and
\* it finds nothing else but a line of another header that speaks of X-PH.
HeadersArrive ==
  msg_buf # <<>> =>
    LET found == IF header = <<>> THEN NoMap ELSE getHeaderDict
        given == {<<k>> : k \in DOMAIN headers}
    IN  /\ given \subseteq DOMAIN found
        /\ \A k \in DOMAIN headers : found[<<k>>] = headers[k]
        /\ \A k \in DOMAIN found \ given : \E l \in OtherLines : Mentions(l) /\ <<l[1]>> = k

\* The identifier under which a call's statistics are filed is the value of its
\* X-CallUUID header, not the rest of the message, and none without the header.
XCallUUIDIsOwn ==
  msg_buf # <<>> => xCallUUID = IF uuid = None THEN <<>> ELSE <<uuid>>

\* The native conversions index the pieces of a text without asking how many there
\* are: no header that was validated makes them read past the end, whatever the order
\* of the map; and a notification does so only if a value has a "," at its end or before
\* another ",".
EmptyPiece(v) == \E i \in DOMAIN v : v[i] = "," /\ (i = Len(v) \/ v[i + 1] = ",")
OutOfRangeByComma ==
  outOfRange # None =>
    follows = "account" /\ \E k \in DOMAIN outOfRange : EmptyPiece(outOfRange[k])

\* However many notifications are passed on, the account registers with one X-Label
\* and one X-Index; and when their values have no separators, with those of the
\* last notification that named a registrar, through that registrar.
NotificationApplied ==
  pushed # None =>
    /\ \A name \in {"X-Label", "X-Index"} :
         Cardinality({i \in DOMAIN reg_hdr_list : reg_hdr_list[i][1] = name}) = 1
    /\ (\A k \in Required : Plain(pushed[k])) =>
         /\ <<"X-Label", pushed["label"]>> \in Range(reg_hdr_list)
         /\ <<"X-Index", pushed["index"]>> \in Range(reg_hdr_list)
         /\ proxy = pushed["registrar"]
==============================================================================
