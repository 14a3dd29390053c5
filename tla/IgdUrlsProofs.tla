----------------------------- MODULE IgdUrlsProofs -----------------------------
(***************************************************************************)
(* url_t for any text and wherever its buffers are: its views are inside   *)
(* the buffer and in order, copies and moves keep what they show, and      *)
(* replace_path changes the path and nothing else.  What the readers of    *)
(* text return: numbers have their value, plain URLs are taken apart, and  *)
(* answers are read as they were sent.  From these, that IgdUrls is safe   *)
(* and its requests go to the device, for any datagrams, descriptions and  *)
(* addresses of buffers.                                                   *)
(***************************************************************************)
EXTENDS IgdUrls, SequenceLemmas

(* An offset that has been found is one at which there is room for the     *)
(* token.                                                                  *)
LEMMA FindIsInside ==
    ASSUME NEW text, Len(text) \in Nat, NEW from \in Nat, NEW token, Len(token) \in Nat
    PROVE  \/ Find(text, from, token) = NotFound
           \/ Find(text, from, token) \in from .. Len(text) - Len(token)
<1>. DEFINE at == {i \in from .. Len(text) - Len(token) :
                      SubSeq(text, i + 1, i + Len(token)) = token}
<1>1. CASE at = {}
  BY <1>1 DEF Find
<1>2. CASE at # {}
  <2>1. at \subseteq Nat
    OBVIOUS
  <2>2. Min(at) \in at
    <3>. HIDE DEF at
    <3>. QED  BY <1>2, <2>1, MinIsIn
  <2>. QED  BY <1>2, <2>2, Zenon DEF Find
<1>. QED  BY <1>1, <1>2

LEMMA FindNothing ==
    ASSUME NEW text, Len(text) \in Nat, NEW from \in Nat, NEW token, Len(token) \in Nat,
           Find(text, from, token) = NotFound
    PROVE  \A i \in from .. Len(text) - Len(token) : SubSeq(text, i + 1, i + Len(token)) # token
<1>. DEFINE at == {i \in from .. Len(text) - Len(token) :
                      SubSeq(text, i + 1, i + Len(token)) = token}
<1>1. CASE at = {}
  BY <1>1
<1>2. CASE at # {}
  <2>1. at \subseteq Nat
    OBVIOUS
  <2>2. Min(at) \in at
    <3>. HIDE DEF at
    <3>. QED  BY <1>2, <2>1, MinIsIn
  <2>3. Find(text, from, token) = Min(at)
    BY <1>2 DEF Find
  <2>4. Min(at) \in Nat
    BY <2>1, <2>2, Zenon
  <2>5. \A n \in Nat : n # NotFound
    BY DEF NotFound
  <2>. QED  BY <2>3, <2>4, <2>5, Zenon
<1>. QED  BY <1>1, <1>2

LEMMA FirstOfTwo ==
    ASSUME NEW a \in Int, NEW b \in Int, b # NotFound
    PROVE  FirstFound(<<a, b>>) = IF a # NotFound THEN a ELSE b
<1>. DEFINE I == {i \in 1 .. Len(<<a, b>>) : <<a, b>>[i] # NotFound}
<1>1. I \subseteq Nat /\ 2 \in I /\ I \subseteq {1, 2} /\ (1 \in I <=> a # NotFound)
  OBVIOUS
<1>2. Min(I) \in I /\ \A y \in I : Min(I) <= y
  <2>. HIDE DEF I
  <2>. QED  BY <1>1, MinIsIn
<1>3. Min(I) = IF a # NotFound THEN 1 ELSE 2
  <2>. DEFINE m == Min(I)
  <2>1. m \in I /\ \A y \in I : m <= y
    BY <1>2
  <2>. HIDE DEF I, m
  <2>2. m = IF a # NotFound THEN 1 ELSE 2
    BY <1>1, <2>1
  <2>. QED  BY <2>2 DEF m
<1>4. FirstFound(<<a, b>>) = <<a, b>>[Min(I)]
  BY <1>1 DEF FirstFound, SelectInSeq
<1>. QED  BY <1>3, <1>4

LEMMA FirstOfThree ==
    ASSUME NEW a \in Int, NEW b \in Int, NEW c \in Int, c # NotFound
    PROVE  FirstFound(<<a, b, c>>) =
              IF a # NotFound THEN a ELSE IF b # NotFound THEN b ELSE c
<1>. DEFINE I == {i \in 1 .. Len(<<a, b, c>>) : <<a, b, c>>[i] # NotFound}
<1>1. /\ I \subseteq Nat /\ 3 \in I /\ I \subseteq {1, 2, 3}
      /\ (1 \in I <=> a # NotFound) /\ (2 \in I <=> b # NotFound)
  OBVIOUS
<1>2. Min(I) \in I /\ \A y \in I : Min(I) <= y
  <2>. HIDE DEF I
  <2>. QED  BY <1>1, MinIsIn
<1>3. Min(I) = IF a # NotFound THEN 1 ELSE IF b # NotFound THEN 2 ELSE 3
  <2>. DEFINE m == Min(I)
  <2>1. m \in I /\ \A y \in I : m <= y
    BY <1>2
  <2>. HIDE DEF I, m
  <2>2. m = IF a # NotFound THEN 1 ELSE IF b # NotFound THEN 2 ELSE 3
    BY <1>1, <2>1
  <2>. QED  BY <2>2 DEF m
<1>4. FirstFound(<<a, b, c>>) = <<a, b, c>>[Min(I)]
  BY <1>1 DEF FirstFound, SelectInSeq
<1>. QED  BY <1>3, <1>4

LEMMA MaxOfTwo ==
    ASSUME NEW a \in Int, NEW b \in Int
    PROVE  Max({a, b}) = IF a >= b THEN a ELSE b
BY DEF Max

-----------------------------------------------------------------------------
(* Well-formed URLs: the views that show something are inside the buffer,  *)
(* one after the other.  A path that is there counts even when it is       *)
(* empty, as replace_path can put text at it, and the host of a port is    *)
(* before it, as get_host_and_port starts there.  All this is said in      *)
(* offsets s and lengths l: it does not matter where the buffer is.        *)

Order == [scheme |-> 1, userinfo |-> 2, host |-> 3, port |-> 4, path |-> 5,
          query |-> 6, fragment |-> 7]

Behind == {"query", "fragment"}

Starts(u)  == [p \in Parts |-> u.part[p].ptr - u.base]
Lengths(u) == [p \in Parts |-> u.part[p].len]

Shown(s, l, n, p) == l[p] > 0 \/ (p = "path" /\ s["path"] \in 0 .. n)

InOrder(s, l, n) ==
    /\ \A p \in Parts : Shown(s, l, n, p) => 0 <= s[p] /\ s[p] + l[p] <= n
    /\ \A p, q \in Parts :
          Shown(s, l, n, p) /\ Shown(s, l, n, q) /\ Order[p] < Order[q] => s[p] + l[p] <= s[q]
    /\ l["port"] > 0 => 0 <= s["host"] /\ s["host"] <= s["port"]

IsUrl(u, S) ==
    /\ u.buf \in Seq(S)
    /\ u.base \in Nat
    /\ u.part \in [Parts -> [ptr : Int, len : Nat]]
    /\ InOrder(Starts(u), Lengths(u), Len(u.buf))

LEMMA ViewTypes ==
    ASSUME NEW u, u.base \in Int, u.part \in [Parts -> [ptr : Int, len : Nat]]
    PROVE  /\ Starts(u) \in [Parts -> Int]
           /\ Lengths(u) \in [Parts -> Nat]
<1>1. \A p \in Parts : u.part[p].ptr \in Int /\ u.part[p].len \in Nat
  OBVIOUS
<1>. QED  BY <1>1 DEF Starts, Lengths

LEMMA TextByOffset ==
    ASSUME NEW u, NEW p \in Parts, u.base \in Int,
           u.part \in [Parts -> [ptr : Int, len : Nat]]
    PROVE  TextOf(u, p) = SubSeq(u.buf, Starts(u)[p] + 1, Starts(u)[p] + Lengths(u)[p])
<1>1. u.part[p].ptr \in Int /\ u.part[p].len \in Nat
  OBVIOUS
<1>2. /\ u.part[p].ptr - u.base + 1 = Starts(u)[p] + 1
      /\ u.part[p].ptr - u.base + u.part[p].len = Starts(u)[p] + Lengths(u)[p]
  BY <1>1 DEF Starts, Lengths
<1>. QED  BY <1>2 DEF TextOf, TextAt

(* Views that follow their buffer have the offsets they had.               *)
LEMMA TransferKeepsOffsets ==
    ASSUME NEW part \in [Parts -> [ptr : Int, len : Nat]], NEW from \in Int, NEW to \in Int
    PROVE  /\ TransferAll(part, from, to) \in [Parts -> [ptr : Int, len : Nat]]
           /\ \A p \in Parts : /\ TransferAll(part, from, to)[p].len = part[p].len
                             /\ TransferAll(part, from, to)[p].ptr - to = part[p].ptr - from
<1>1. ASSUME NEW p \in Parts
      PROVE  /\ Transfer(part[p], from, to) \in [ptr : Int, len : Nat]
             /\ Transfer(part[p], from, to).len = part[p].len
             /\ Transfer(part[p], from, to).ptr - to = part[p].ptr - from
  <2>1. part[p].ptr \in Int /\ part[p].len \in Nat
    OBVIOUS
  <2>2. Transfer(part[p], from, to) = [ptr |-> (part[p].ptr - from) + to, len |-> part[p].len]
    BY <2>1 DEF Transfer
  <2>. QED  BY <2>1, <2>2
<1>. QED  BY <1>1 DEF TransferAll

(* A moved or a copied URL has the buffer's text and the offsets it had,   *)
(* wherever its new buffer is.                                             *)
LEMMA MovedViews ==
    ASSUME NEW S, NEW u, IsUrl(u, S), NEW b \in Nat,
           NEW v \in {MovedTo(u, b), CopyOf(u, b)}
    PROVE  IsUrl(v, S) /\ v.buf = u.buf /\ Starts(v) = Starts(u) /\ Lengths(v) = Lengths(u)
<1>1. /\ v.buf = u.buf /\ v.base = b
      /\ v.part = TransferAll(u.part, u.base, b)
  BY DEF MovedTo, CopyOf
<1>2. /\ v.part \in [Parts -> [ptr : Int, len : Nat]]
      /\ \A p \in Parts : /\ v.part[p].len = u.part[p].len
                        /\ v.part[p].ptr - b = u.part[p].ptr - u.base
  <2>1. u.part \in [Parts -> [ptr : Int, len : Nat]] /\ u.base \in Int /\ b \in Int
    BY DEF IsUrl
  <2>. QED  BY <1>1, <2>1, TransferKeepsOffsets
<1>3. Starts(v) = Starts(u) /\ Lengths(v) = Lengths(u)
  BY <1>1, <1>2 DEF Starts, Lengths
<1>. QED  BY <1>1, <1>2, <1>3 DEF IsUrl

(* A moved or a copied URL is well-formed and shows the same texts, where- *)
(* ever its new buffer is.                                                 *)
THEOREM MovesKeepTexts ==
    ASSUME NEW S, NEW u, IsUrl(u, S), NEW b \in Nat
    PROVE  /\ IsUrl(MovedTo(u, b), S) /\ Texts(MovedTo(u, b)) = Texts(u)
           /\ IsUrl(CopyOf(u, b), S) /\ Texts(CopyOf(u, b)) = Texts(u)
<1>. SUFFICES ASSUME NEW v \in {MovedTo(u, b), CopyOf(u, b)}
              PROVE  IsUrl(v, S) /\ Texts(v) = Texts(u)
  OBVIOUS
<1>1. IsUrl(v, S) /\ v.buf = u.buf /\ Starts(v) = Starts(u) /\ Lengths(v) = Lengths(u)
  BY MovedViews
<1>2. ASSUME NEW p \in Parts
      PROVE  TextOf(v, p) = TextOf(u, p)
  <2>1. /\ u.base \in Int /\ u.part \in [Parts -> [ptr : Int, len : Nat]]
        /\ v.base \in Int /\ v.part \in [Parts -> [ptr : Int, len : Nat]]
    BY <1>1 DEF IsUrl
  <2>2. TextOf(u, p) = SubSeq(u.buf, Starts(u)[p] + 1, Starts(u)[p] + Lengths(u)[p])
    BY <2>1, TextByOffset
  <2>3. TextOf(v, p) = SubSeq(v.buf, Starts(v)[p] + 1, Starts(v)[p] + Lengths(v)[p])
    BY <2>1, TextByOffset
  <2>. QED  BY <1>1, <2>2, <2>3
<1>. QED  BY <1>1, <1>2 DEF Texts

(* What get_host_and_port and replace_path make of the views.              *)
LEMMA EndpointByOffset ==
    ASSUME NEW u, u.base \in Int, u.part \in [Parts -> [ptr : Int, len : Nat]]
    PROVE  /\ HostAndPort(u) =
                 IF Lengths(u)["port"] = 0 THEN TextOf(u, "host")
                 ELSE SubSeq(u.buf, Starts(u)["host"] + 1, Starts(u)["port"] + Lengths(u)["port"])
           /\ CanReplacePath(u) <=> Starts(u)["path"] \in 0 .. Len(u.buf)
<1>1. {"host", "port", "path"} \subseteq Parts
  BY DEF Parts
<1>2. \A p \in {"host", "port", "path"} :
         /\ u.part[p].ptr \in Int /\ u.part[p].len \in Nat
         /\ Starts(u)[p] = u.part[p].ptr - u.base /\ Lengths(u)[p] = u.part[p].len
  BY <1>1 DEF Starts, Lengths
<1>3. PICK h \in Int, q \in Int, l \in Nat :
         h = u.part["host"].ptr /\ q = u.part["port"].ptr /\ l = u.part["port"].len
  BY <1>2
<1>4. /\ h - u.base + 1 = Starts(u)["host"] + 1
      /\ h - u.base + (q + l - h) = Starts(u)["port"] + l /\ l = Lengths(u)["port"]
  BY <1>2, <1>3
<1>5. TextAt(u, h, q + l - h) = SubSeq(u.buf, Starts(u)["host"] + 1, Starts(u)["port"] + l)
  BY <1>4 DEF TextAt
<1>. QED  BY <1>2, <1>3, <1>4, <1>5 DEF HostAndPort, CanReplacePath

(* A moved or a copied URL names the same endpoint, and its path can be    *)
(* replaced if it could be before.                                         *)
LEMMA MovesKeepEndpoint ==
    ASSUME NEW S, NEW u, IsUrl(u, S), NEW b \in Nat,
           NEW v \in {MovedTo(u, b), CopyOf(u, b)}
    PROVE  HostAndPort(v) = HostAndPort(u) /\ (CanReplacePath(v) <=> CanReplacePath(u))
<1>1. IsUrl(v, S) /\ v.buf = u.buf /\ Starts(v) = Starts(u) /\ Lengths(v) = Lengths(u)
  BY MovedViews
<1>2. /\ u.base \in Int /\ u.part \in [Parts -> [ptr : Int, len : Nat]]
      /\ v.base \in Int /\ v.part \in [Parts -> [ptr : Int, len : Nat]]
  BY <1>1 DEF IsUrl
<1>3. TextOf(v, "host") = TextOf(u, "host")
  <2>1. "host" \in Parts
    BY DEF Parts
  <2>. QED  BY <1>1, <1>2, <2>1, TextByOffset
<1>. QED  BY <1>1, <1>2, <1>3, EndpointByOffset

-----------------------------------------------------------------------------
(* What is before the path ends where it starts, or earlier, and what is   *)
(* behind it starts where it ends, or later.                               *)
LEMMA PathIsBetween ==
    ASSUME NEW s \in [Parts -> Int], NEW l \in [Parts -> Nat], NEW n \in Nat,
           InOrder(s, l, n), s["path"] \in 0 .. n
    PROVE  /\ s["path"] \in Nat /\ l["path"] \in Nat /\ s["path"] + l["path"] <= n
           /\ \A p \in Parts \ (Behind \cup {"path"}) :
                 l[p] > 0 => 0 <= s[p] /\ s[p] + l[p] <= s["path"]
           /\ \A p \in Behind :
                 l[p] > 0 => s["path"] + l["path"] <= s[p] /\ s[p] + l[p] <= n
<1>1. "path" \in Parts /\ Behind \subseteq Parts
  BY DEF Parts, Behind
<1>2. Shown(s, l, n, "path")
  BY DEF Shown
<1>3. /\ \A p \in Parts \ (Behind \cup {"path"}) : Order[p] < Order["path"]
      /\ \A p \in Behind : Order["path"] < Order[p]
  BY DEF Order, Parts, Behind
<1>4. s["path"] \in Nat /\ l["path"] \in Nat /\ s["path"] + l["path"] <= n
  BY <1>1, <1>2 DEF InOrder
<1>5. ASSUME NEW p \in Parts \ (Behind \cup {"path"}), l[p] > 0
      PROVE  0 <= s[p] /\ s[p] + l[p] <= s["path"]
  <2>1. Shown(s, l, n, p)
    BY <1>5 DEF Shown
  <2>. QED  BY <1>1, <1>2, <1>3, <2>1 DEF InOrder
<1>6. ASSUME NEW p \in Behind, l[p] > 0
      PROVE  s["path"] + l["path"] <= s[p] /\ s[p] + l[p] <= n
  <2>1. Shown(s, l, n, p) /\ p \in Parts
    BY <1>1, <1>6 DEF Shown
  <2>. QED  BY <1>1, <1>2, <1>3, <2>1 DEF InOrder
<1>. QED  BY <1>4, <1>5, <1>6

(* A path of length m takes the place of the path, and what is behind it   *)
(* is shifted: the views are still in order.                               *)
Shifted(s, d) == [p \in Parts |-> IF p \in Behind THEN s[p] + d ELSE s[p]]
Resized(l, m) == [p \in Parts |-> IF p = "path" THEN m ELSE l[p]]

LEMMA ShiftKeepsOrder ==
    ASSUME NEW s \in [Parts -> Int], NEW l \in [Parts -> Nat], NEW n \in Nat,
           InOrder(s, l, n), s["path"] \in 0 .. n,
           NEW m \in Nat, NEW d \in Int, d = m - l["path"]
    PROVE  InOrder(Shifted(s, d), Resized(l, m), n + d)
<1>0. PICK t, k : t = Shifted(s, d) /\ k = Resized(l, m)
  OBVIOUS
<1>1. "path" \in Parts /\ Behind \subseteq Parts /\ "path" \notin Behind
  BY DEF Parts, Behind
<1>2. /\ s["path"] \in Nat /\ l["path"] \in Nat /\ s["path"] + l["path"] <= n
      /\ \A p \in Parts \ (Behind \cup {"path"}) :
            l[p] > 0 => 0 <= s[p] /\ s[p] + l[p] <= s["path"]
      /\ \A p \in Behind :
            l[p] > 0 => s["path"] + l["path"] <= s[p] /\ s[p] + l[p] <= n
  BY PathIsBetween
<1>3. /\ t["path"] = s["path"] /\ k["path"] = m
      /\ \A p \in Behind : t[p] = s[p] + d /\ k[p] = l[p]
      /\ \A p \in Parts \ (Behind \cup {"path"}) : t[p] = s[p] /\ k[p] = l[p]
      /\ \A p \in Parts : s[p] \in Int /\ l[p] \in Nat
  BY <1>0, <1>1 DEF Shifted, Resized
<1>4. t["path"] \in 0 .. n + d /\ t["path"] + k["path"] <= n + d
  BY <1>2, <1>3
<1>5. ASSUME NEW p \in Parts, Shown(t, k, n + d, p)
      PROVE  0 <= t[p] /\ t[p] + k[p] <= n + d
  <2>1. CASE p = "path"
    BY <1>4, <2>1
  <2>2. CASE p \in Behind
    <3>1. l[p] > 0
      BY <1>1, <1>3, <1>5, <2>2 DEF Shown
    <3>. QED  BY <1>2, <1>3, <2>2, <3>1
  <2>3. CASE p \in Parts \ (Behind \cup {"path"})
    <3>1. l[p] > 0
      BY <1>3, <1>5, <2>3 DEF Shown
    <3>. QED  BY <1>2, <1>3, <2>3, <3>1
  <2>. QED  BY <2>1, <2>2, <2>3
<1>6. ASSUME NEW p \in Parts, NEW q \in Parts,
             Shown(t, k, n + d, p), Shown(t, k, n + d, q), Order[p] < Order[q]
      PROVE  t[p] + k[p] <= t[q]
  <2>1. Shown(s, l, n, p) /\ Shown(s, l, n, q)
    BY <1>3, <1>6 DEF Shown
  <2>2. s[p] + l[p] <= s[q]
    BY <1>6, <2>1 DEF InOrder
  <2>3. \/ p = "path" /\ q \in Behind
        \/ p \in Behind /\ q \in Behind
        \/ p \in Parts \ (Behind \cup {"path"})
    BY <1>6 DEF Order, Parts, Behind
  <2>4. CASE p = "path" /\ q \in Behind
    BY <1>1, <1>2, <1>3, <2>2, <2>4
  <2>5. CASE p \in Behind /\ q \in Behind
    BY <1>3, <2>2, <2>5
  <2>6. CASE p \in Parts \ (Behind \cup {"path"}) /\ q \notin Behind
    <3>1. t[q] = s[q]
      BY <1>3, <2>6
    <3>. QED  BY <1>3, <2>2, <2>6, <3>1
  <2>7. CASE p \in Parts \ (Behind \cup {"path"}) /\ q \in Behind
    <3>1. l[p] > 0 /\ l[q] > 0
      BY <1>1, <1>3, <1>6, <2>7 DEF Shown
    <3>2. s[p] + l[p] <= s["path"] /\ s["path"] + l["path"] <= s[q]
      BY <1>2, <2>7, <3>1
    <3>. QED  BY <1>2, <1>3, <2>7, <3>2
  <2>. QED  BY <2>3, <2>4, <2>5, <2>6, <2>7
<1>7. k["port"] > 0 => 0 <= t["host"] /\ t["host"] <= t["port"]
  <2>1. {"host", "port"} \subseteq Parts \ (Behind \cup {"path"})
    BY DEF Parts, Behind
  <2>. QED  BY <1>3, <2>1 DEF InOrder
<1>. QED  BY <1>0, <1>5, <1>6, <1>7 DEF InOrder

(* The offsets, lengths and text of a URL whose path has been replaced.    *)
LEMMA ReplacedViews ==
    ASSUME NEW S, NEW u, IsUrl(u, S), Starts(u)["path"] \in 0 .. Len(u.buf),
           NEW path \in Seq(S), NEW b \in Nat,
           NEW d, d = Len(path) - Lengths(u)["path"],
           NEW v, v = ReplacePath(u, path, b)
    PROVE  /\ v.buf = Splice(u.buf, Starts(u)["path"], path,
                             Starts(u)["path"] + Lengths(u)["path"])
           /\ v.base = b
           /\ v.part \in [Parts -> [ptr : Int, len : Nat]]
           /\ Starts(v) = Shifted(Starts(u), d) /\ Lengths(v) = Resized(Lengths(u), Len(path))
<1>. DEFINE shifted == [u.part EXCEPT !["path"].len = @ + d,
                                      !["query"].ptr = @ + d,
                                      !["fragment"].ptr = @ + d]
<1>1. /\ u.base \in Int /\ u.part \in [Parts -> [ptr : Int, len : Nat]]
      /\ Len(path) \in Nat
  BY DEF IsUrl
<1>2. /\ "path" \in Parts /\ Behind \subseteq Parts /\ "path" \notin Behind
      /\ \A p \in Parts : u.part[p].ptr \in Int /\ u.part[p].len \in Nat
  BY <1>1 DEF Parts, Behind
<1>3. /\ Starts(u)["path"] = u.part["path"].ptr - u.base
      /\ Lengths(u)["path"] = u.part["path"].len
  BY <1>2 DEF Starts, Lengths
<1>4. d \in Int /\ d = Len(path) - u.part["path"].len /\ u.part["path"].len + d = Len(path)
  <2>1. PICK m \in Nat, l \in Nat : m = Len(path) /\ l = u.part["path"].len
    BY <1>1, <1>2
  <2>2. d = m - l
    BY <1>3, <2>1
  <2>. QED  BY ONLY <2>1, <2>2
<1>5. /\ v.base = b /\ v.part = TransferAll(shifted, u.base, b)
      /\ v.buf = Splice(u.buf, Starts(u)["path"], path, Starts(u)["path"] + Lengths(u)["path"])
  BY <1>3, <1>4, Zenon DEF ReplacePath, Splice
<1>6. shifted = [p \in Parts |->
                   IF p = "path" THEN [u.part[p] EXCEPT !.len = @ + d]
                   ELSE IF p \in Behind THEN [u.part[p] EXCEPT !.ptr = @ + d]
                   ELSE u.part[p]]
  BY <1>1 DEF Parts, Behind
<1>. HIDE DEF shifted
<1>7. ASSUME NEW p \in Parts
      PROVE  /\ shifted[p] \in [ptr : Int, len : Nat]
             /\ shifted[p].len = IF p = "path" THEN Len(path) ELSE u.part[p].len
             /\ shifted[p].ptr = IF p \in Behind THEN u.part[p].ptr + d ELSE u.part[p].ptr
  <2>1. u.part[p].ptr \in Int /\ u.part[p].len \in Nat
        /\ u.part[p] = [ptr |-> u.part[p].ptr, len |-> u.part[p].len]
    BY <1>1
  <2>2. CASE p = "path"
    <3>1. shifted[p] = [ptr |-> u.part[p].ptr, len |-> u.part[p].len + d]
      BY <1>6, <2>1, <2>2
    <3>2. u.part[p].len + d = Len(path)
      BY <1>4, <2>2
    <3>. QED  BY <1>1, <1>2, <2>1, <2>2, <3>1, <3>2
  <2>3. CASE p \in Behind
    <3>1. p # "path" /\ shifted[p] = [ptr |-> u.part[p].ptr + d, len |-> u.part[p].len]
      BY <1>2, <1>6, <2>1, <2>3
    <3>2. u.part[p].ptr + d \in Int
      BY <1>4, <2>1
    <3>. QED  BY <2>1, <2>3, <3>1, <3>2
  <2>4. CASE p # "path" /\ p \notin Behind
    <3>1. shifted[p] = u.part[p]
      BY <1>6, <2>4
    <3>. QED  BY <1>1, <2>4, <3>1
  <2>. QED  BY <2>2, <2>3, <2>4
<1>8. shifted \in [Parts -> [ptr : Int, len : Nat]]
  BY <1>6, <1>7
<1>9. /\ v.part \in [Parts -> [ptr : Int, len : Nat]]
      /\ \A p \in Parts : /\ v.part[p].len = shifted[p].len
                        /\ v.part[p].ptr - b = shifted[p].ptr - u.base
  <2>1. b \in Int /\ u.base \in Int
    BY <1>1
  <2>2. /\ TransferAll(shifted, u.base, b) \in [Parts -> [ptr : Int, len : Nat]]
        /\ \A p \in Parts : /\ TransferAll(shifted, u.base, b)[p].len = shifted[p].len
                          /\ TransferAll(shifted, u.base, b)[p].ptr - b = shifted[p].ptr - u.base
    BY <1>8, <2>1, TransferKeepsOffsets
  <2>. QED  BY <1>5, <2>2
<1>10. Lengths(v) = [p \in Parts |-> IF p = "path" THEN Len(path) ELSE Lengths(u)[p]]
  BY <1>7, <1>9 DEF Lengths
<1>11. ASSUME NEW p \in Parts
       PROVE  v.part[p].ptr - b = IF p \in Behind THEN (u.part[p].ptr - u.base) + d
                                  ELSE u.part[p].ptr - u.base
  <2>1. u.part[p].ptr \in Int
    BY <1>2
  <2>2. v.part[p].ptr - b = shifted[p].ptr - u.base
    BY <1>9
  <2>3. shifted[p].ptr = IF p \in Behind THEN u.part[p].ptr + d ELSE u.part[p].ptr
    BY <1>7
  <2>4. (u.part[p].ptr + d) - u.base = (u.part[p].ptr - u.base) + d
    <3>1. \A x, y, z \in Int : (x + z) - y = (x - y) + z
      OBVIOUS
    <3>. QED  BY <1>1, <1>4, <2>1, <3>1, Zenon
  <2>. QED  BY <2>2, <2>3, <2>4
<1>12. Starts(v) = [p \in Parts |-> IF p \in Behind THEN Starts(u)[p] + d ELSE Starts(u)[p]]
  BY <1>5, <1>11 DEF Starts
<1>. QED  BY <1>5, <1>9, <1>10, <1>12 DEF Shifted, Resized

(* A URL whose path is replaced is well-formed, shows the new path, and    *)
(* shows the same text in every other part: what is behind the path moves  *)
(* with it, and what is before it does not.                                *)
THEOREM PathIsReplaced ==
    ASSUME NEW S, NEW u, IsUrl(u, S), CanReplacePath(u),
           NEW path \in Seq(S), NEW b \in Nat
    PROVE  /\ IsUrl(ReplacePath(u, path, b), S)
           /\ Texts(ReplacePath(u, path, b)) = [Texts(u) EXCEPT !["path"] = path]
<1>1. PICK v, s, l, t, k, n, m, d, old, new :
         /\ v = ReplacePath(u, path, b)
         /\ s = Starts(u) /\ l = Lengths(u) /\ t = Starts(v) /\ k = Lengths(v)
         /\ n = Len(u.buf) /\ m = Len(path) /\ d = m - l["path"]
         /\ old = u.buf /\ new = v.buf
  OBVIOUS
<1>2. /\ old \in Seq(S) /\ n \in Nat /\ n = Len(old) /\ m \in Nat
      /\ s \in [Parts -> Int] /\ l \in [Parts -> Nat] /\ InOrder(s, l, n)
  <2>1. u.base \in Int /\ u.part \in [Parts -> [ptr : Int, len : Nat]]
    BY DEF IsUrl
  <2>2. s \in [Parts -> Int] /\ l \in [Parts -> Nat]
    BY <1>1, <2>1, ViewTypes
  <2>. QED  BY <1>1, <2>2 DEF IsUrl
<1>3. "path" \in Parts /\ Behind \subseteq Parts /\ "path" \notin Behind
  BY DEF Parts, Behind
<1>4. s["path"] \in 0 .. n
  BY <1>1, <1>3 DEF CanReplacePath, Starts
<1>5. /\ new = Splice(old, s["path"], path, s["path"] + l["path"]) /\ v.base = b
      /\ v.part \in [Parts -> [ptr : Int, len : Nat]]
      /\ t = Shifted(s, d) /\ k = Resized(l, m)
  BY <1>1, <1>4, ReplacedViews
<1>6. d \in Int /\ d = m - l["path"] /\ l["path"] \in Nat
  BY <1>1, <1>2, <1>3
<1>7. InOrder(t, k, n + d)
  BY <1>2, <1>4, <1>5, <1>6, ShiftKeepsOrder
<1>8. /\ s["path"] \in Nat /\ s["path"] + l["path"] <= n
      /\ \A p \in Parts \ (Behind \cup {"path"}) :
            l[p] > 0 => 0 <= s[p] /\ s[p] + l[p] <= s["path"]
      /\ \A p \in Behind :
            l[p] > 0 => s["path"] + l["path"] <= s[p] /\ s[p] + l[p] <= n
  BY <1>2, <1>4, PathIsBetween
<1>9. PICK at \in Nat, after \in Nat :
         at = s["path"] /\ after = s["path"] + l["path"] /\ after \in at .. n
  BY <1>2, <1>6, <1>8
<1>10. /\ new \in Seq(S) /\ Len(new) = n + d
       /\ \A i, j \in 1 .. at : SubSeq(new, i, j) = SubSeq(old, i, j)
       /\ SubSeq(new, at + 1, at + Len(path)) = path
       /\ \A i, j \in after + 1 .. Len(old) : SubSeq(new, i + d, j + d) = SubSeq(old, i, j)
  <2>1. d = Len(path) - (after - at) /\ after \in at .. Len(old)
    BY <1>1, <1>2, <1>6, <1>9
  <2>2. new = Splice(old, at, path, after)
    BY <1>5, <1>9
  <2>3. IsSpliced(S, new, old, at, path, after, d)
    BY <1>2, <1>6, <2>1, <2>2, Spliced
  <2>. QED  BY <1>2, <2>3 DEF IsSpliced
<1>11. IsUrl(v, S)
  BY <1>1, <1>5, <1>7, <1>10 DEF IsUrl
<1>12. ASSUME NEW p \in Parts
       PROVE  /\ TextOf(u, p) = SubSeq(old, s[p] + 1, s[p] + l[p])
              /\ TextOf(v, p) = SubSeq(new, t[p] + 1, t[p] + k[p])
  <2>1. u.base \in Int /\ u.part \in [Parts -> [ptr : Int, len : Nat]] /\ v.base \in Int
    BY <1>5 DEF IsUrl
  <2>2. TextOf(u, p) = SubSeq(u.buf, Starts(u)[p] + 1, Starts(u)[p] + Lengths(u)[p])
    BY <2>1, TextByOffset
  <2>3. TextOf(v, p) = SubSeq(v.buf, Starts(v)[p] + 1, Starts(v)[p] + Lengths(v)[p])
    BY <1>5, <2>1, TextByOffset
  <2>. QED  BY <1>1, <2>2, <2>3
<1>13. TextOf(v, "path") = path
  <2>1. t["path"] = at /\ k["path"] = Len(path)
    BY <1>1, <1>3, <1>5, <1>9 DEF Shifted, Resized
  <2>2. TextOf(v, "path") = SubSeq(new, t["path"] + 1, t["path"] + k["path"])
    BY <1>3, <1>12
  <2>. QED  BY <1>10, <2>1, <2>2
<1>14. ASSUME NEW p \in Parts \ {"path"}
       PROVE  TextOf(v, p) = TextOf(u, p)
  <2>1. /\ s[p] \in Int /\ l[p] \in Nat /\ k[p] = l[p] /\ t[p] \in Int
        /\ t[p] = IF p \in Behind THEN s[p] + d ELSE s[p]
    BY <1>2, <1>5, <1>6 DEF Shifted, Resized
  <2>2. CASE l[p] = 0
    <3>1. s[p] + l[p] < s[p] + 1 /\ t[p] + k[p] < t[p] + 1
      BY <2>1, <2>2
    <3>2. SubSeq(old, s[p] + 1, s[p] + l[p]) = <<>>
      BY <2>1, <3>1, SubSeqEmpty
    <3>3. SubSeq(new, t[p] + 1, t[p] + k[p]) = <<>>
      BY <2>1, <3>1, SubSeqEmpty
    <3>. QED  BY <1>12, <3>2, <3>3
  <2>3. CASE l[p] > 0 /\ p \notin Behind
    <3>1. s[p] + 1 \in 1 .. at /\ s[p] + l[p] \in 1 .. at
      BY <1>8, <1>9, <2>1, <2>3
    <3>2. SubSeq(new, s[p] + 1, s[p] + l[p]) = SubSeq(old, s[p] + 1, s[p] + l[p])
      BY <1>10, <3>1
    <3>. QED  BY <1>12, <2>1, <2>3, <3>2
  <2>4. CASE l[p] > 0 /\ p \in Behind
    <3>1. s[p] + 1 \in after + 1 .. n /\ s[p] + l[p] \in after + 1 .. n
      <4>1. after <= s[p] /\ s[p] + l[p] <= n
        BY <1>8, <1>9, <2>4
      <4>2. PICK x, y : x = s[p] /\ y = l[p]
        OBVIOUS
      <4>3. /\ x \in Int /\ y \in Nat /\ y > 0 /\ after \in Nat /\ n \in Nat
            /\ after <= x /\ x + y <= n
        BY <1>2, <2>1, <2>4, <4>1, <4>2
      <4>4. x + 1 \in after + 1 .. n /\ x + y \in after + 1 .. n
        BY ONLY <4>3
      <4>. QED  BY ONLY <4>2, <4>4, Zenon
    <3>2. SubSeq(new, (s[p] + 1) + d, (s[p] + l[p]) + d) = SubSeq(old, s[p] + 1, s[p] + l[p])
      BY <1>2, <1>10, <3>1
    <3>3. t[p] = s[p] + d /\ k[p] = l[p]
      BY <2>1, <2>4
    <3>4. \A x, y, z \in Int : (x + 1) + z = (x + z) + 1 /\ (x + y) + z = (x + z) + y
      OBVIOUS
    <3>5. s[p] \in Int /\ l[p] \in Int /\ d \in Int
      BY <1>2, <1>6, <2>1
    <3>6. (s[p] + 1) + d = (s[p] + d) + 1 /\ (s[p] + l[p]) + d = (s[p] + d) + l[p]
      BY ONLY <3>4, <3>5
    <3>7. (s[p] + 1) + d = t[p] + 1 /\ (s[p] + l[p]) + d = t[p] + k[p]
      BY ONLY <3>3, <3>6, Zenon
    <3>8. SubSeq(new, t[p] + 1, t[p] + k[p]) = SubSeq(old, s[p] + 1, s[p] + l[p])
      BY <3>2, <3>7
    <3>. QED  BY <1>12, <3>8
  <2>. QED  BY <2>1, <2>2, <2>3, <2>4
<1>15. Texts(v) = [Texts(u) EXCEPT !["path"] = path]
  BY <1>13, <1>14 DEF Texts
<1>. QED  BY <1>1, <1>11, <1>15

(* It names the same endpoint: host and port are before the path, and so   *)
(* is what separates them.                                                 *)
LEMMA ReplacedEndpoint ==
    ASSUME NEW S, NEW u, IsUrl(u, S), CanReplacePath(u),
           NEW path \in Seq(S), NEW b \in Nat
    PROVE  /\ HostAndPort(ReplacePath(u, path, b)) = HostAndPort(u)
           /\ CanReplacePath(ReplacePath(u, path, b))
<1>1. PICK v, s, l, t, k, n, at, d :
         /\ v = ReplacePath(u, path, b)
         /\ s = Starts(u) /\ l = Lengths(u) /\ t = Starts(v) /\ k = Lengths(v)
         /\ n = Len(u.buf) /\ at = s["path"] /\ d = Len(path) - l["path"]
  OBVIOUS
<1>2. u.base \in Int /\ u.part \in [Parts -> [ptr : Int, len : Nat]]
  BY DEF IsUrl
<1>3. /\ s \in [Parts -> Int] /\ l \in [Parts -> Nat] /\ n \in Nat /\ InOrder(s, l, n)
      /\ at \in 0 .. n
  <2>1. s \in [Parts -> Int] /\ l \in [Parts -> Nat]
    BY <1>1, <1>2, ViewTypes
  <2>. QED  BY <1>1, <1>2, <2>1, EndpointByOffset DEF IsUrl
<1>4. /\ v.buf = Splice(u.buf, at, path, at + l["path"]) /\ v.base = b
      /\ v.part \in [Parts -> [ptr : Int, len : Nat]]
      /\ t = Shifted(s, d) /\ k = Resized(l, Len(path))
  <2>1. Starts(u)["path"] \in 0 .. Len(u.buf) /\ d = Len(path) - Lengths(u)["path"]
    BY <1>1, <1>3
  <2>. QED  BY <1>1, <2>1, ReplacedViews
<1>5. {"host", "port", "path"} \subseteq Parts /\ {"host", "port", "path"} \cap Behind = {}
  BY DEF Parts, Behind
<1>6. /\ t["host"] = s["host"] /\ t["port"] = s["port"] /\ t["path"] = at
      /\ k["host"] = l["host"] /\ k["port"] = l["port"]
      /\ s["host"] \in Int /\ s["port"] \in Int /\ l["port"] \in Nat
  BY <1>1, <1>3, <1>4, <1>5 DEF Shifted, Resized
<1>7. TextOf(v, "host") = TextOf(u, "host")
  <2>1. "host" \in Parts /\ "host" # "path"
    BY DEF Parts
  <2>2. Texts(v) = [Texts(u) EXCEPT !["path"] = path]
    BY <1>1, PathIsReplaced
  <2>3. Texts(v)["host"] = Texts(u)["host"]
    BY <2>1, <2>2 DEF Texts
  <2>. QED  BY <2>1, <2>3 DEF Texts
<1>8. l["path"] \in Nat /\ at + l["path"] <= n
  BY <1>1, <1>3, PathIsBetween
<1>9. /\ \A i, j \in 1 .. at : SubSeq(v.buf, i, j) = SubSeq(u.buf, i, j)
      /\ Len(v.buf) = n + d /\ d \in Int
  <2>1. PICK after : u.buf \in Seq(S) /\ at \in Nat /\ after = at + l["path"] /\ after \in at .. Len(u.buf)
    BY <1>1, <1>3, <1>8 DEF IsUrl
  <2>2. d \in Int /\ d = Len(path) - (after - at)
    BY <1>1, <1>3, <1>8, <2>1
  <2>3. IsSpliced(S, Splice(u.buf, at, path, after), u.buf, at, path, after, d)
    BY <2>1, <2>2, Spliced
  <2>4. v.buf = Splice(u.buf, at, path, after)
    BY <1>4, <2>1
  <2>. QED  BY <1>1, <2>2, <2>3, <2>4 DEF IsSpliced
<1>10. ASSUME l["port"] = 0 PROVE HostAndPort(v) = HostAndPort(u)
  <2>1. v.base \in Int /\ v.part \in [Parts -> [ptr : Int, len : Nat]]
    BY <1>4
  <2>2. HostAndPort(u) = TextOf(u, "host")
    BY <1>1, <1>2, <1>10, EndpointByOffset
  <2>3. HostAndPort(v) = TextOf(v, "host")
    BY <1>1, <1>6, <1>10, <2>1, EndpointByOffset
  <2>. QED  BY <1>7, <2>2, <2>3
<1>11. ASSUME l["port"] > 0 PROVE HostAndPort(v) = HostAndPort(u)
  <2>1. 0 <= s["host"] /\ s["host"] <= s["port"]
    BY <1>3, <1>11 DEF InOrder
  <2>2. s["port"] + l["port"] <= at
    <3>1. "port" \in Parts \ (Behind \cup {"path"})
      BY DEF Parts, Behind
    <3>. QED  BY <1>1, <1>3, <1>11, <3>1, PathIsBetween
  <2>3. s["host"] + 1 \in 1 .. at /\ s["port"] + l["port"] \in 1 .. at
    BY <1>3, <1>6, <1>11, <2>1, <2>2
  <2>4. SubSeq(v.buf, s["host"] + 1, s["port"] + l["port"])
           = SubSeq(u.buf, s["host"] + 1, s["port"] + l["port"])
    BY <1>9, <2>3
  <2>5. HostAndPort(u) = SubSeq(u.buf, s["host"] + 1, s["port"] + l["port"])
    BY <1>1, <1>2, <1>11, EndpointByOffset
  <2>6. v.base \in Int /\ v.part \in [Parts -> [ptr : Int, len : Nat]]
    BY <1>4
  <2>7. HostAndPort(v) = SubSeq(v.buf, t["host"] + 1, t["port"] + k["port"])
    <3>1. Lengths(v)["port"] # 0
      BY <1>1, <1>6, <1>11
    <3>. QED  BY <1>1, <2>6, <3>1, EndpointByOffset
  <2>. QED  BY <1>6, <2>4, <2>5, <2>7
<1>12. CanReplacePath(v)
  <2>1. v.base \in Int /\ v.part \in [Parts -> [ptr : Int, len : Nat]]
    BY <1>4
  <2>2. t["path"] \in 0 .. Len(v.buf)
    <3>1. Len(path) \in Nat /\ d = Len(path) - l["path"]
      BY <1>1
    <3>. QED  BY <1>3, <1>6, <1>8, <1>9, <3>1
  <2>. QED  BY <1>1, <2>1, <2>2, EndpointByOffset
<1>13. HostAndPort(v) = HostAndPort(u)
  BY <1>6, <1>10, <1>11
<1>. QED  BY <1>1, <1>12, <1>13

-----------------------------------------------------------------------------
(* Views that are each between two of eight cuts of the text are in order. *)
LEMMA CutsAreInOrder ==
    ASSUME NEW s \in [Parts -> Int], NEW l \in [Parts -> Nat], NEW n \in Nat,
           NEW c \in [1 .. 8 -> Int], c[1] = 0, c[8] = n, \A i \in 1 .. 7 : c[i] <= c[i + 1],
           \A p \in Parts : Shown(s, l, n, p) =>
              c[Order[p]] <= s[p] /\ s[p] + l[p] <= c[Order[p] + 1],
           l["port"] > 0 => 0 <= s["host"] /\ s["host"] <= s["port"]
    PROVE  InOrder(s, l, n)
<1>1. /\ c[1] <= c[2] /\ c[2] <= c[3] /\ c[3] <= c[4] /\ c[4] <= c[5]
      /\ c[5] <= c[6] /\ c[6] <= c[7] /\ c[7] <= c[8]
  OBVIOUS
<1>2. \A i \in 1 .. 8 : c[i] \in Int
  OBVIOUS
<1>3. \A i, j \in 1 .. 8 : i <= j => c[i] <= c[j]
  <2>. SUFFICES ASSUME NEW i \in 1 .. 8, NEW j \in 1 .. 8, i <= j
                PROVE  c[i] <= c[j]
    OBVIOUS
  <2>1. i \in {1, 2, 3, 4, 5, 6, 7, 8} /\ j \in {1, 2, 3, 4, 5, 6, 7, 8}
    OBVIOUS
  <2>. QED  BY <1>1, <1>2, <2>1
<1>4. \A p \in Parts : Order[p] \in 1 .. 7 /\ s[p] \in Int /\ l[p] \in Nat
  BY DEF Parts, Order
<1>5. ASSUME NEW p \in Parts, Shown(s, l, n, p)
      PROVE  0 <= s[p] /\ s[p] + l[p] <= n
  <2>1. PICK i \in 1 .. 7 : i = Order[p] /\ c[i] <= s[p] /\ s[p] + l[p] <= c[i + 1]
    BY <1>4, <1>5
  <2>2. c[1] <= c[i] /\ c[i + 1] <= c[8] /\ c[i] \in Int /\ c[i + 1] \in Int
    BY <1>2, <1>3
  <2>. QED  BY <1>4, <2>1, <2>2
<1>6. ASSUME NEW p \in Parts, NEW q \in Parts,
             Shown(s, l, n, p), Shown(s, l, n, q), Order[p] < Order[q]
      PROVE  s[p] + l[p] <= s[q]
  <2>1. PICK i \in 1 .. 7, j \in 1 .. 7 : i = Order[p] /\ j = Order[q] /\ i < j
    BY <1>4, <1>6
  <2>2. s[p] + l[p] <= c[i + 1] /\ c[j] <= s[q]
    BY <1>6, <2>1
  <2>3. c[i + 1] <= c[j] /\ c[i + 1] \in Int /\ c[j] \in Int
    BY <1>2, <1>3, <2>1
  <2>. QED  BY <1>4, <2>2, <2>3
<1>. QED  BY <1>5, <1>6 DEF InOrder

(* The parts that parse finds in a text, from offset x up to y: between    *)
(* which cuts they are, and that the buffer's address has no part in that. *)
(* Without a path there is no port, and no colon in the host.              *)
IsParsed(text, there, x, y, c) ==
    /\ there \subseteq Parts /\ x \in [Parts -> Int] /\ y \in [Parts -> Int]
    /\ c \in [1 .. 8 -> Int] /\ c[1] = 0 /\ c[8] = Len(text)
    /\ \A i \in 1 .. 7 : c[i] <= c[i + 1]
    /\ \A p \in there :
          c[Order[p]] <= x[p] /\ x[p] <= y[p] /\ y[p] <= c[Order[p] + 1]
    /\ "host" \in there
    /\ "path" \notin there =>
          /\ "port" \notin there /\ y["host"] = Len(text)
          /\ \A i \in x["host"] .. Len(text) - 1 : SubSeq(text, i + 1, i + 1) # <<":">>

ViewsOf(there, x, y, base) ==
    [p \in Parts |-> IF p \in there THEN [ptr |-> base + x[p], len |-> y[p] - x[p]] ELSE Null]

LEMMA ParsedViews ==
    ASSUME NEW S, NEW text \in Seq(S)
    PROVE  \E there, x, y, c :
              /\ IsParsed(text, there, x, y, c)
              /\ \A base : ParseUrl(text, base) =
                              [buf |-> text, base |-> base, part |-> ViewsOf(there, x, y, base)]
<1>. DEFINE scheme0 == Find(text, 0, <<":", "/", "/">>)
            from0   == IF scheme0 = NotFound THEN 0 ELSE scheme0 + 3
            user0   == Find(text, from0, <<"@">>)
            host0   == IF user0 = NotFound THEN from0 ELSE user0 + 1
            colon0  == Find(text, host0, <<":">>)
            slash0  == Find(text, Max({host0, colon0 + 1}), <<"/">>)
            isLong0 == colon0 # NotFound \/ slash0 # NotFound
            path0   == IF slash0 # NotFound THEN slash0 ELSE colon0 + 1
            query0  == Find(text, path0, <<"?">>)
            hash0   == Find(text, Max({path0, query0 + 1}), <<"#">>)
<1>1. PICK end, scheme, from, user, host, colon, slash, path, query, hash :
         /\ end = Len(text) /\ scheme = scheme0 /\ from = from0 /\ user = user0
         /\ host = host0 /\ colon = colon0 /\ slash = slash0
         /\ path = path0 /\ query = query0 /\ hash = hash0
  OBVIOUS
<1>. DEFINE isLong == colon # NotFound \/ slash # NotFound
<1>2. /\ scheme = Find(text, 0, <<":", "/", "/">>)
      /\ from = IF scheme = NotFound THEN 0 ELSE scheme + 3
      /\ user = Find(text, from, <<"@">>)
      /\ host = IF user = NotFound THEN from ELSE user + 1
      /\ colon = Find(text, host, <<":">>)
      /\ slash = Find(text, Max({host, colon + 1}), <<"/">>)
      /\ path = IF slash # NotFound THEN slash ELSE colon + 1
      /\ query = Find(text, path, <<"?">>)
      /\ hash = Find(text, Max({path, query + 1}), <<"#">>)
  BY <1>1
<1>3. PICK hostEnd, pathEnd, queryEnd :
         /\ hostEnd = FirstFound(<<colon, slash, end>>)
         /\ pathEnd = FirstFound(<<query, hash, end>>)
         /\ queryEnd = FirstFound(<<hash, end>>)
  OBVIOUS
<1>4. ASSUME NEW base
      PROVE  ParseUrl(text, base) =
                LET View(f, t) == [ptr |-> base + f, len |-> t - f]
                IN  [buf  |-> text,
                     base |-> base,
                     part |-> [scheme   |-> IF scheme # NotFound THEN View(0, scheme) ELSE Null,
                               userinfo |-> IF user # NotFound THEN View(from, user) ELSE Null,
                               host     |-> View(host, hostEnd),
                               port     |-> IF colon # NotFound /\ slash # NotFound
                                            THEN View(colon + 1, slash) ELSE Null,
                               path     |-> IF isLong THEN View(path, pathEnd) ELSE Null,
                               query    |-> IF isLong /\ query # NotFound
                                            THEN View(query + 1, queryEnd) ELSE Null,
                               fragment |-> IF isLong /\ hash # NotFound
                                            THEN View(hash + 1, end) ELSE Null]]
  <2>. DEFINE View(f, t) == [ptr |-> base + f, len |-> t - f]
  <2>1. ParseUrl(text, base) =
           [buf  |-> text,
            base |-> base,
            part |-> [scheme   |-> IF scheme0 # NotFound THEN View(0, scheme0) ELSE Null,
                      userinfo |-> IF user0 # NotFound THEN View(from0, user0) ELSE Null,
                      host     |-> View(host0, FirstFound(<<colon0, slash0, Len(text)>>)),
                      port     |-> IF colon0 # NotFound /\ slash0 # NotFound
                                   THEN View(colon0 + 1, slash0) ELSE Null,
                      path     |-> IF isLong0 THEN View(path0, FirstFound(<<query0, hash0, Len(text)>>)) ELSE Null,
                      query    |-> IF isLong0 /\ query0 # NotFound
                                   THEN View(query0 + 1, FirstFound(<<hash0, Len(text)>>)) ELSE Null,
                      fragment |-> IF isLong0 /\ hash0 # NotFound THEN View(hash0 + 1, Len(text)) ELSE Null]]
    BY Zenon DEF ParseUrl
  <2>. HIDE DEF scheme0, from0, user0, host0, colon0, slash0, path0, query0, hash0
  <2>. QED  BY <1>1, <1>3, <2>1
<1>. HIDE DEF scheme0, from0, user0, host0, colon0, slash0, path0, query0, hash0
<1>5. /\ end \in Nat /\ NotFound = -1
      /\ Len(<<":", "/", "/">>) = 3 /\ Len(<<"@">>) = 1 /\ Len(<<":">>) = 1
      /\ Len(<<"/">>) = 1 /\ Len(<<"?">>) = 1 /\ Len(<<"#">>) = 1
  BY <1>1 DEF NotFound
<1>5a. /\ from = IF scheme = -1 THEN 0 ELSE scheme + 3
       /\ host = IF user = -1 THEN from ELSE user + 1
       /\ path = IF slash # -1 THEN slash ELSE colon + 1
  BY <1>2, <1>5
<1>6. (scheme = -1 \/ scheme \in 0 .. end - 3) /\ from \in 0 .. end
      /\ (scheme # -1 => scheme <= from)
  <2>1. scheme = -1 \/ scheme \in 0 .. end - 3
    BY <1>1, <1>2, <1>5, FindIsInside
  <2>. QED  BY <1>5, <1>5a, <2>1
<1>7. (user = -1 \/ user \in from .. end - 1) /\ host \in from .. end
      /\ (user # -1 => user <= host)
  <2>1. from \in Nat /\ user = Find(text, from, <<"@">>)
    BY <1>2, <1>6
  <2>2. user = -1 \/ user \in from .. end - 1
    BY <1>1, <1>5, <2>1, FindIsInside
  <2>. QED  BY <1>5, <1>6, <1>5a, <2>1, <2>2
<1>8. colon = -1 \/ colon \in host .. end - 1
  <2>1. host \in Nat /\ colon = Find(text, host, <<":">>)
    BY <1>2, <1>6, <1>7
  <2>. QED  BY <1>1, <1>5, <2>1, FindIsInside
<1>9. PICK next \in Nat : next = Max({host, colon + 1}) /\ host <= next /\ colon + 1 <= next
  <2>1. host \in Nat /\ colon \in Int /\ colon + 1 \in Nat
    BY <1>5, <1>6, <1>7, <1>8
  <2>. QED  BY <2>1, MaxOfTwo
<1>10. slash = -1 \/ slash \in next .. end - 1
  <2>1. slash = Find(text, next, <<"/">>)
    BY <1>2, <1>9
  <2>. QED  BY <1>1, <1>5, <2>1, FindIsInside
<1>11. path \in 0 .. end /\ (colon # -1 \/ slash # -1 => host <= path) /\ (colon # -1 => colon + 1 <= path)
  <2>1. host \in Nat /\ from \in Nat /\ host <= end
    BY <1>5, <1>6, <1>7
  <2>2. CASE slash # -1
    BY <1>5, <1>8, <1>9, <1>10, <1>5a, <2>1, <2>2
  <2>3. CASE slash = -1
    BY <1>5, <1>8, <1>5a, <2>1, <2>3
  <2>. QED  BY <2>2, <2>3
<1>12. query = -1 \/ query \in path .. end - 1
  <2>1. path \in Nat
    BY <1>11
  <2>. QED  BY <1>1, <1>2, <1>5, <2>1, FindIsInside
<1>13. PICK last \in Nat : last = Max({path, query + 1}) /\ path <= last /\ query + 1 <= last
  <2>1. path \in Nat /\ query \in Int /\ query + 1 \in Nat
    BY <1>5, <1>11, <1>12
  <2>. QED  BY <2>1, MaxOfTwo
<1>14. hash = -1 \/ hash \in last .. end - 1
  <2>1. hash = Find(text, last, <<"#">>)
    BY <1>2, <1>13
  <2>. QED  BY <1>1, <1>5, <2>1, FindIsInside
<1>15. colon \in Int /\ slash \in Int /\ query \in Int /\ hash \in Int
  BY <1>5, <1>8, <1>10, <1>12, <1>14
<1>17. /\ hostEnd = IF colon # -1 THEN colon ELSE IF slash # -1 THEN slash ELSE end
       /\ pathEnd = IF query # -1 THEN query ELSE IF hash # -1 THEN hash ELSE end
       /\ queryEnd = IF hash # -1 THEN hash ELSE end
  <2>1. end \in Int /\ end # NotFound /\ NotFound = -1
    BY <1>5
  <2>. QED  BY <1>3, <1>15, <2>1, FirstOfThree, FirstOfTwo
<1>18. /\ hostEnd \in host .. end /\ pathEnd \in path .. end /\ queryEnd \in pathEnd .. end
       /\ (colon # -1 \/ slash # -1 => hostEnd <= path) /\ (colon # -1 => hostEnd = colon)
       /\ (query # -1 => query + 1 <= queryEnd /\ pathEnd <= query)
       /\ (hash # -1 => queryEnd <= hash)
  <2>1. host \in Nat /\ path \in Nat /\ host <= end /\ path <= end
    BY <1>5, <1>6, <1>7, <1>11
  <2>2. hostEnd \in host .. end /\ (colon # -1 => hostEnd = colon)
        /\ (colon # -1 \/ slash # -1 => hostEnd <= path)
    BY <1>5, <1>8, <1>9, <1>10, <1>17, <1>5a, <2>1
  <2>3. /\ pathEnd \in path .. end /\ queryEnd \in pathEnd .. end
        /\ (query # -1 => query + 1 <= queryEnd /\ pathEnd <= query)
        /\ (hash # -1 => queryEnd <= hash)
    BY <1>5, <1>12, <1>13, <1>14, <1>17, <2>1
  <2>. QED  BY <2>2, <2>3
<1>19. PICK c \in [1 .. 8 -> Int] :
          /\ c[1] = 0 /\ c[2] = from /\ c[3] = host /\ c[4] = hostEnd
          /\ c[5] = IF colon # -1 \/ slash # -1 THEN path ELSE end
          /\ c[6] = IF colon # -1 \/ slash # -1 THEN pathEnd ELSE end
          /\ c[7] = IF colon # -1 \/ slash # -1 THEN queryEnd ELSE end
          /\ c[8] = end
  <2>. DEFINE a5 == IF colon # -1 \/ slash # -1 THEN path ELSE end
              a6 == IF colon # -1 \/ slash # -1 THEN pathEnd ELSE end
              a7 == IF colon # -1 \/ slash # -1 THEN queryEnd ELSE end
  <2>1. /\ from \in Int /\ host \in Int /\ hostEnd \in Int /\ a5 \in Int /\ a6 \in Int
        /\ a7 \in Int /\ end \in Int
    BY <1>5, <1>6, <1>7, <1>11, <1>18
  <2>. HIDE DEF a5, a6, a7
  <2>. DEFINE f == <<0, from, host, hostEnd, a5, a6, a7, end>>
  <2>2. f \in [1 .. 8 -> Int] /\ f[1] = 0 /\ f[2] = from /\ f[3] = host /\ f[4] = hostEnd
        /\ f[5] = a5 /\ f[6] = a6 /\ f[7] = a7 /\ f[8] = end
    BY <2>1
  <2>. HIDE DEF f
  <2>. QED  BY <2>2 DEF a5, a6, a7
<1>20. \A i \in 1 .. 7 : c[i] <= c[i + 1]
  <2>1. c[1] <= c[2] /\ c[2] <= c[3] /\ c[3] <= c[4]
    BY <1>5, <1>6, <1>7, <1>18, <1>19
  <2>2. c[4] <= c[5] /\ c[5] <= c[6] /\ c[6] <= c[7] /\ c[7] <= c[8]
    BY <1>5, <1>6, <1>7, <1>11, <1>18, <1>19
  <2>3. ASSUME NEW i \in 1 .. 7 PROVE c[i] <= c[i + 1]
    <3>1. i = 1 \/ i = 2 \/ i = 3 \/ i = 4 \/ i = 5 \/ i = 6 \/ i = 7
      OBVIOUS
    <3>. QED  BY ONLY <2>1, <2>2, <3>1
  <2>. QED  BY <2>3
<1>. DEFINE there == {p \in Parts : \/ p = "scheme" /\ scheme # -1
                                    \/ p = "userinfo" /\ user # -1
                                    \/ p = "host"
                                    \/ p = "port" /\ colon # -1 /\ slash # -1
                                    \/ p = "path" /\ (colon # -1 \/ slash # -1)
                                    \/ p = "query" /\ (colon # -1 \/ slash # -1) /\ query # -1
                                    \/ p = "fragment" /\ (colon # -1 \/ slash # -1) /\ hash # -1}
            x == [scheme |-> 0, userinfo |-> from, host |-> host, port |-> colon + 1,
                  path |-> path, query |-> query + 1, fragment |-> hash + 1]
            y == [scheme |-> scheme, userinfo |-> user, host |-> hostEnd, port |-> slash,
                  path |-> pathEnd, query |-> queryEnd, fragment |-> end]
<1>21. there \subseteq Parts /\ x \in [Parts -> Int] /\ y \in [Parts -> Int]
  <2>1. /\ scheme \in Int /\ user \in Int /\ hostEnd \in Int /\ pathEnd \in Int
        /\ queryEnd \in Int /\ end \in Int /\ from \in Int /\ host \in Int /\ path \in Int
    BY <1>5, <1>6, <1>7, <1>11, <1>18
  <2>2. x = [p \in Parts |-> x[p]] /\ y = [p \in Parts |-> y[p]]
    BY DEF Parts
  <2>3. there \subseteq Parts
    OBVIOUS
  <2>4. /\ x["scheme"] \in Int /\ x["userinfo"] \in Int /\ x["host"] \in Int /\ x["port"] \in Int
        /\ x["path"] \in Int /\ x["query"] \in Int /\ x["fragment"] \in Int
    BY <1>15, <2>1
  <2>5. /\ y["scheme"] \in Int /\ y["userinfo"] \in Int /\ y["host"] \in Int /\ y["port"] \in Int
        /\ y["path"] \in Int /\ y["query"] \in Int /\ y["fragment"] \in Int
    BY <1>15, <2>1
  <2>. HIDE DEF there, x, y
  <2>6. \A p \in Parts : x[p] \in Int /\ y[p] \in Int
    BY <2>4, <2>5 DEF Parts
  <2>. QED  BY <2>2, <2>3, <2>6
<1>22. ASSUME NEW base
       PROVE  ParseUrl(text, base) =
                 [buf |-> text, base |-> base, part |-> ViewsOf(there, x, y, base)]
  <2>. DEFINE view(f, t) == [ptr |-> base + f, len |-> t - f]
              v == [scheme   |-> IF scheme # NotFound THEN view(0, scheme) ELSE Null,
                    userinfo |-> IF user # NotFound THEN view(from, user) ELSE Null,
                    host     |-> view(host, hostEnd),
                    port     |-> IF colon # NotFound /\ slash # NotFound
                                 THEN view(colon + 1, slash) ELSE Null,
                    path     |-> IF isLong THEN view(path, pathEnd) ELSE Null,
                    query    |-> IF isLong /\ query # NotFound
                                 THEN view(query + 1, queryEnd) ELSE Null,
                    fragment |-> IF isLong /\ hash # NotFound
                                 THEN view(hash + 1, end) ELSE Null]
  <2>1. ParseUrl(text, base) = [buf |-> text, base |-> base, part |-> v]
    BY <1>4
  <2>2. v = [p \in Parts |-> v[p]]
    BY DEF Parts
  <2>. HIDE DEF view
  <2>3. ASSUME NEW p \in Parts
        PROVE  v[p] = IF p \in there THEN view(x[p], y[p]) ELSE Null
    <3>1. v["scheme"] = IF "scheme" \in there THEN view(x["scheme"], y["scheme"]) ELSE Null
      BY <1>5 DEF Parts
    <3>2. v["userinfo"] = IF "userinfo" \in there THEN view(x["userinfo"], y["userinfo"]) ELSE Null
      BY <1>5 DEF Parts
    <3>3. v["host"] = IF "host" \in there THEN view(x["host"], y["host"]) ELSE Null
      BY <1>5 DEF Parts
    <3>4. v["port"] = IF "port" \in there THEN view(x["port"], y["port"]) ELSE Null
      BY <1>5 DEF Parts
    <3>5. v["path"] = IF "path" \in there THEN view(x["path"], y["path"]) ELSE Null
      BY <1>5 DEF Parts
    <3>6. v["query"] = IF "query" \in there THEN view(x["query"], y["query"]) ELSE Null
      BY <1>5 DEF Parts
    <3>7. v["fragment"] = IF "fragment" \in there THEN view(x["fragment"], y["fragment"]) ELSE Null
      BY <1>5 DEF Parts
    <3>. HIDE DEF v, there, x, y
    <3>. QED  BY <3>1, <3>2, <3>3, <3>4, <3>5, <3>6, <3>7 DEF Parts
  <2>. HIDE DEF v, there, x, y
  <2>4. v = ViewsOf(there, x, y, base)
    BY <2>2, <2>3 DEF ViewsOf, view
  <2>. QED  BY <2>1, <2>4
<1>23. /\ c[1] \in Int /\ c[2] \in Int /\ c[3] \in Int /\ c[4] \in Int
       /\ c[5] \in Int /\ c[6] \in Int /\ c[7] \in Int /\ c[8] \in Int
  OBVIOUS
<1>24. scheme # -1 => c[1] <= 0 /\ 0 <= scheme /\ scheme <= c[2]
  BY <1>5, <1>6, <1>19
<1>25. user # -1 => c[2] <= from /\ from <= user /\ user <= c[3]
  BY <1>5, <1>6, <1>7, <1>19
<1>26. c[3] <= host /\ host <= hostEnd /\ hostEnd <= c[4]
  BY <1>5, <1>6, <1>7, <1>18, <1>19
<1>27. colon # -1 /\ slash # -1 => c[4] <= colon + 1 /\ colon + 1 <= slash /\ slash <= c[5]
  <2>. SUFFICES ASSUME colon # -1, slash # -1
                PROVE  c[4] <= colon + 1 /\ colon + 1 <= slash /\ slash <= c[5]
    OBVIOUS
  <2>1. c[4] = colon /\ c[5] = slash
    BY <1>5a, <1>18, <1>19
  <2>2. slash \in next .. end - 1 /\ colon + 1 <= next
    BY <1>9, <1>10
  <2>. QED  BY <1>5, <1>15, <2>1, <2>2
<1>28. colon # -1 \/ slash # -1 => c[5] <= path /\ path <= pathEnd /\ pathEnd <= c[6]
  BY <1>5, <1>11, <1>18, <1>19
<1>29. (colon # -1 \/ slash # -1) /\ query # -1 =>
          c[6] <= query + 1 /\ query + 1 <= queryEnd /\ queryEnd <= c[7]
  <2>. SUFFICES ASSUME colon # -1 \/ slash # -1, query # -1
                PROVE  c[6] <= query + 1 /\ query + 1 <= queryEnd /\ queryEnd <= c[7]
    OBVIOUS
  <2>1. c[6] = pathEnd /\ c[7] = queryEnd
    BY <1>19
  <2>2. pathEnd <= query /\ query + 1 <= queryEnd
    BY <1>18
  <2>3. pathEnd \in Int /\ queryEnd \in Int
    BY <1>11, <1>18
  <2>. QED  BY <1>15, <2>1, <2>2, <2>3
<1>30. (colon # -1 \/ slash # -1) /\ hash # -1 =>
          c[7] <= hash + 1 /\ hash + 1 <= end /\ end <= c[8]
  <2>. SUFFICES ASSUME colon # -1 \/ slash # -1, hash # -1
                PROVE  c[7] <= hash + 1 /\ hash + 1 <= end /\ end <= c[8]
    OBVIOUS
  <2>1. c[7] = queryEnd /\ c[8] = end
    BY <1>19
  <2>2. queryEnd <= hash /\ hash \in last .. end - 1
    BY <1>14, <1>18
  <2>3. queryEnd \in Int
    BY <1>11, <1>18
  <2>. QED  BY <1>5, <1>15, <2>1, <2>2, <2>3
<1>31. ASSUME NEW p \in there
       PROVE  c[Order[p]] <= x[p] /\ x[p] <= y[p] /\ y[p] <= c[Order[p] + 1]
  <2>1. /\ Order["scheme"] = 1 /\ Order["userinfo"] = 2 /\ Order["host"] = 3
        /\ Order["port"] = 4 /\ Order["path"] = 5 /\ Order["query"] = 6
        /\ Order["fragment"] = 7
    BY DEF Order
  <2>2. \/ p = "scheme" \/ p = "userinfo" \/ p = "host" \/ p = "port" \/ p = "path"
        \/ p = "query" \/ p = "fragment"
    BY DEF Parts
  <2>3. CASE p = "scheme"
    BY <1>24, <1>31, <2>1, <2>3
  <2>4. CASE p = "userinfo"
    BY <1>25, <1>31, <2>1, <2>4
  <2>5. CASE p = "host"
    BY <1>26, <1>31, <2>1, <2>5
  <2>6. CASE p = "port"
    BY <1>27, <1>31, <2>1, <2>6
  <2>7. CASE p = "path"
    BY <1>28, <1>31, <2>1, <2>7
  <2>8. CASE p = "query"
    BY <1>29, <1>31, <2>1, <2>8
  <2>9. CASE p = "fragment"
    BY <1>30, <1>31, <2>1, <2>9
  <2>. QED  BY <2>2, <2>3, <2>4, <2>5, <2>6, <2>7, <2>8, <2>9
<1>32. ASSUME "path" \notin there
       PROVE  /\ "port" \notin there /\ y["host"] = Len(text)
              /\ \A i \in x["host"] .. Len(text) - 1 : SubSeq(text, i + 1, i + 1) # <<":">>
  <2>1. colon = -1 /\ slash = -1
    BY <1>32 DEF Parts
  <2>2. "port" \notin there /\ y["host"] = end /\ x["host"] = host
    BY <1>17, <2>1
  <2>3. host \in Nat /\ Find(text, host, <<":">>) = NotFound
    <3>1. host \in Nat
      BY <1>5, <1>6, <1>7
    <3>. QED  BY <1>2, <1>5, <2>1, <3>1
  <2>4. \A i \in host .. Len(text) - 1 : SubSeq(text, i + 1, i + 1) # <<":">>
    BY <1>1, <1>5, <2>3, FindNothing
  <2>. QED  BY <1>1, <2>2, <2>4
<1>33. "host" \in there
  BY DEF Parts
<1>. HIDE DEF there, x, y
<1>34. IsParsed(text, there, x, y, c)
  BY <1>1, <1>19, <1>20, <1>21, <1>31, <1>32, <1>33 DEF IsParsed
<1>. QED  BY <1>22, <1>34

(* A URL that has been parsed is well-formed, whatever its text is: also   *)
(* when '@' and ':' are found in what should be its path.                  *)
THEOREM ParsedUrls ==
    ASSUME NEW S, NEW text \in Seq(S), NEW base \in Nat \ {0}
    PROVE  IsUrl(ParseUrl(text, base), S)
<1>1. PICK there, x, y, c :
         /\ IsParsed(text, there, x, y, c)
         /\ ParseUrl(text, base) =
               [buf |-> text, base |-> base, part |-> ViewsOf(there, x, y, base)]
  BY ParsedViews
<1>2. PICK u, s, l, end :
         /\ u = ParseUrl(text, base) /\ s = Starts(u) /\ l = Lengths(u)
         /\ end = Len(text) /\ end \in Nat
  OBVIOUS
<1>3. u.buf = text /\ u.base = base /\ u.part = ViewsOf(there, x, y, base)
  BY <1>1, <1>2
<1>4. /\ there \subseteq Parts /\ x \in [Parts -> Int] /\ y \in [Parts -> Int]
      /\ c \in [1 .. 8 -> Int] /\ c[1] = 0 /\ c[8] = end
      /\ \A i \in 1 .. 7 : c[i] <= c[i + 1]
      /\ \A p \in there :
            c[Order[p]] <= x[p] /\ x[p] <= y[p] /\ y[p] <= c[Order[p] + 1]
      /\ "host" \in there
  BY <1>1, <1>2 DEF IsParsed
<1>5. ASSUME NEW p \in Parts
      PROVE  /\ u.part[p] \in [ptr : Int, len : Nat]
             /\ p \in there => s[p] = x[p] /\ l[p] = y[p] - x[p]
             /\ p \notin there => s[p] = -base /\ l[p] = 0
  <2>1. u.part[p] = IF p \in there THEN [ptr |-> base + x[p], len |-> y[p] - x[p]] ELSE Null
    BY <1>3 DEF ViewsOf
  <2>2. s[p] = u.part[p].ptr - base /\ l[p] = u.part[p].len
    BY <1>2, <1>3 DEF Starts, Lengths
  <2>3. x[p] \in Int /\ y[p] \in Int /\ (p \in there => x[p] <= y[p])
    BY <1>4
  <2>. QED  BY <2>1, <2>2, <2>3 DEF Null
<1>6. u.part \in [Parts -> [ptr : Int, len : Nat]]
  BY <1>3, <1>5 DEF ViewsOf
<1>7. s \in [Parts -> Int] /\ l \in [Parts -> Nat]
  <2>1. u.base \in Int
    BY <1>3
  <2>. QED  BY <1>2, <1>6, <2>1, ViewTypes
<1>8. ASSUME NEW p \in Parts, Shown(s, l, end, p)
      PROVE  c[Order[p]] <= s[p] /\ s[p] + l[p] <= c[Order[p] + 1]
  <2>1. p \in there
    <3>1. l[p] > 0 \/ s[p] \in 0 .. end
      BY <1>8 DEF Shown
    <3>. QED  BY <1>5, <3>1
  <2>2. x[p] \in Int /\ y[p] \in Int /\ x[p] + (y[p] - x[p]) = y[p]
    BY <1>4
  <2>3. s[p] = x[p] /\ s[p] + l[p] = y[p]
    BY <1>5, <2>1, <2>2
  <2>. QED  BY <1>4, <2>1, <2>3
<1>9. l["port"] > 0 => 0 <= s["host"] /\ s["host"] <= s["port"]
  <2>. SUFFICES ASSUME l["port"] > 0
                PROVE  0 <= s["host"] /\ s["host"] <= s["port"]
    OBVIOUS
  <2>1. "host" \in Parts /\ "port" \in Parts /\ Order["host"] = 3 /\ Order["port"] = 4
    BY DEF Parts, Order
  <2>2. "port" \in there /\ s["port"] = x["port"] /\ s["host"] = x["host"]
    <3>1. "port" \in there
      <4>1. "port" \notin there => l["port"] = 0
        BY <1>5, <2>1
      <4>. QED  BY <4>1
    <3>. QED  BY <1>4, <1>5, <2>1, <3>1
  <2>3. /\ c[3] <= x["host"] /\ x["host"] <= y["host"] /\ y["host"] <= c[3 + 1]
        /\ c[4] <= x["port"]
    BY <1>4, <2>1, <2>2
  <2>4. /\ c[1] <= c[1 + 1] /\ c[2] <= c[2 + 1] /\ c[1] \in Int /\ c[2] \in Int
        /\ c[3] \in Int /\ c[4] \in Int
        /\ x["host"] \in Int /\ y["host"] \in Int /\ x["port"] \in Int
    BY <1>4, <2>1
  <2>5. c[1] = 0 /\ c[1 + 1] = c[2] /\ c[2 + 1] = c[3] /\ c[3 + 1] = c[4]
    BY <1>4
  <2>. QED  BY <2>2, <2>3, <2>4, <2>5
<1>10. InOrder(s, l, end)
  BY <1>2, <1>4, <1>7, <1>8, <1>9, CutsAreInOrder
<1>. QED  BY <1>2, <1>3, <1>6, <1>10 DEF IsUrl

-----------------------------------------------------------------------------
(* What the rest of IgdUrls needs to know of the texts.                    *)

LEMMA SubSeqIsIn ==
    ASSUME NEW S, NEW text \in Seq(S), NEW m \in Nat \ {0}, NEW n \in Int, n <= Len(text)
    PROVE  SubSeq(text, m, n) \in Seq(S)
<1>1. \A i \in m .. n : text[i] \in S
  OBVIOUS
<1>. QED  BY <1>1, SubSeqProperties

(* A view shows a piece of the buffer.                                     *)
LEMMA TextsAreIn ==
    ASSUME NEW S, NEW u, IsUrl(u, S), NEW p \in Parts
    PROVE  TextOf(u, p) \in Seq(S)
<1>1. /\ u.base \in Int /\ u.part \in [Parts -> [ptr : Int, len : Nat]]
      /\ u.buf \in Seq(S) /\ InOrder(Starts(u), Lengths(u), Len(u.buf))
  BY DEF IsUrl
<1>2. PICK s \in Int, l \in Nat, n \in Nat :
         s = Starts(u)[p] /\ l = Lengths(u)[p] /\ n = Len(u.buf)
  <2>1. Starts(u) \in [Parts -> Int] /\ Lengths(u) \in [Parts -> Nat]
    BY <1>1, ViewTypes
  <2>2. Starts(u)[p] \in Int /\ Lengths(u)[p] \in Nat /\ Len(u.buf) \in Nat
    BY <1>1, <2>1
  <2>. QED  BY <2>2
<1>3. TextOf(u, p) = SubSeq(u.buf, s + 1, s + l)
  BY <1>1, <1>2, TextByOffset
<1>4. CASE l = 0
  <2>1. SubSeq(u.buf, s + 1, s + l) = <<>>
    BY <1>4, SubSeqEmpty
  <2>. QED  BY <1>3, <2>1, EmptySeq
<1>5. CASE l > 0
  <2>1. 0 <= s /\ s + l <= n
    BY <1>1, <1>2, <1>5 DEF InOrder, Shown
  <2>2. s + 1 \in Nat \ {0} /\ s + l \in Int /\ s + l <= Len(u.buf)
    BY <1>2, <2>1
  <2>. QED  BY <1>1, <1>3, <2>2, SubSeqIsIn
<1>. QED  BY <1>4, <1>5

(* The texts of a URL that has been parsed do not depend on the address of *)
(* its buffer.                                                             *)
LEMMA ParsedTexts ==
    ASSUME NEW S, NEW text \in Seq(S), NEW a \in Nat, NEW b \in Nat
    PROVE  Texts(ParseUrl(text, a)) = Texts(ParseUrl(text, b))
<1>1. PICK there, x, y, c :
         /\ IsParsed(text, there, x, y, c)
         /\ \A base : ParseUrl(text, base) =
                         [buf |-> text, base |-> base, part |-> ViewsOf(there, x, y, base)]
  BY ParsedViews
<1>2. ASSUME NEW p \in Parts, NEW base \in Nat
      PROVE  TextOf(ParseUrl(text, base), p) =
                IF p \in there THEN SubSeq(text, x[p] + 1, y[p]) ELSE <<>>
  <2>1. PICK u : u = ParseUrl(text, base)
    OBVIOUS
  <2>2. u.buf = text /\ u.base = base
        /\ u.part[p] = IF p \in there THEN [ptr |-> base + x[p], len |-> y[p] - x[p]] ELSE Null
    BY <1>1, <2>1 DEF ViewsOf
  <2>3. x[p] \in Int /\ y[p] \in Int
    BY <1>1 DEF IsParsed
  <2>4. CASE p \in there
    <3>0. u.part[p].ptr = base + x[p] /\ u.part[p].len = y[p] - x[p]
      BY <2>2, <2>4
    <3>1. TextOf(u, p) = SubSeq(text, (base + x[p]) - base + 1, (base + x[p]) - base + (y[p] - x[p]))
      BY <2>2, <3>0, Zenon DEF TextOf, TextAt
    <3>2. (base + x[p]) - base + 1 = x[p] + 1 /\ (base + x[p]) - base + (y[p] - x[p]) = y[p]
      BY <2>3
    <3>. QED  BY <2>1, <2>4, <3>1, <3>2
  <2>5. CASE p \notin there
    <3>1. TextOf(u, p) = SubSeq(text, 0 - base + 1, 0 - base + 0)
      BY <2>2, <2>5 DEF TextOf, TextAt, Null
    <3>2. SubSeq(text, 0 - base + 1, 0 - base + 0) = <<>>
      BY SubSeqEmpty
    <3>. QED  BY <2>1, <2>5, <3>1, <3>2
  <2>. QED  BY <2>4, <2>5
<1>. QED  BY <1>2 DEF Texts

(* What consume_endpoint needs is a colon in front of the port.            *)
LEMMA NoColonNoEndpoint ==
    ASSUME NEW text, \A i \in 1 .. Len(text) : text[i] # ":"
    PROVE  ConsumeEndpoint(text) = <<>>
<1>1. {i \in 1 .. Len(text) : text[i] = ":"} = {}
  OBVIOUS
<1>2. SelectLastInSeq(text, LAMBDA c : c = ":") = 0
  BY <1>1 DEF SelectLastInSeq
<1>. QED  BY <1>2 DEF ConsumeEndpoint

(* A URL without a path has no endpoint that a request could be sent to.   *)
LEMMA NoPathNoEndpoint ==
    ASSUME NEW S, NEW text \in Seq(S), NEW base \in Nat \ {0}
    PROVE  LET u == ParseUrl(text, base)
           IN  CanReplacePath(u) \/ ConsumeEndpoint(HostAndPort(u)) = <<>>
<1>1. PICK there, x, y, c :
         /\ IsParsed(text, there, x, y, c)
         /\ ParseUrl(text, base) =
               [buf |-> text, base |-> base, part |-> ViewsOf(there, x, y, base)]
  BY ParsedViews
<1>2. PICK u, n : u = ParseUrl(text, base) /\ n = Len(text) /\ n \in Nat
  OBVIOUS
<1>3. /\ u.buf = text /\ u.base = base
      /\ \A p \in Parts : u.part[p] =
            IF p \in there THEN [ptr |-> base + x[p], len |-> y[p] - x[p]] ELSE Null
  BY <1>1, <1>2 DEF ViewsOf
<1>4. {"host", "port", "path"} \subseteq Parts /\ Order["host"] = 3 /\ Order["path"] = 5
  BY DEF Parts, Order
<1>5. /\ x \in [Parts -> Int] /\ y \in [Parts -> Int] /\ c \in [1 .. 8 -> Int]
      /\ c[1] = 0 /\ c[8] = n /\ "host" \in there
      /\ \A i \in 1 .. 7 : c[i] <= c[i + 1]
      /\ \A p \in there : c[Order[p]] <= x[p] /\ x[p] <= y[p] /\ y[p] <= c[Order[p] + 1]
  BY <1>1, <1>2 DEF IsParsed
<1>6. 0 <= c[3] /\ 0 <= c[5] /\ c[6] <= n /\ \A i \in 1 .. 8 : c[i] \in Int
  <2>1. /\ c[1] <= c[1 + 1] /\ c[2] <= c[2 + 1] /\ c[3] <= c[3 + 1] /\ c[4] <= c[4 + 1]
        /\ c[6] <= c[6 + 1] /\ c[7] <= c[7 + 1]
    BY <1>5
  <2>2. \A i \in 1 .. 8 : c[i] \in Int
    BY <1>5
  <2>3. c[1] <= c[2] /\ c[2] <= c[3] /\ c[3] <= c[4] /\ c[4] <= c[5] /\ c[6] <= c[7] /\ c[7] <= c[8]
    BY <2>1
  <2>4. /\ c[1] \in Int /\ c[2] \in Int /\ c[3] \in Int /\ c[4] \in Int /\ c[5] \in Int
        /\ c[6] \in Int /\ c[7] \in Int /\ c[8] \in Int
    BY <2>2
  <2>. QED  BY <1>2, <1>5, <2>2, <2>3, <2>4
<1>7. CASE "path" \in there
  <2>1. /\ u.part["path"].ptr = base + x["path"] /\ x["path"] \in Int /\ y["path"] \in Int
        /\ c[5] <= x["path"] /\ x["path"] <= y["path"] /\ y["path"] <= c[6]
    <3>1. "path" \in Parts /\ u.part["path"] = [ptr |-> base + x["path"], len |-> y["path"] - x["path"]]
      BY <1>3, <1>4, <1>7
    <3>2. /\ c[Order["path"]] <= x["path"] /\ x["path"] <= y["path"]
          /\ y["path"] <= c[Order["path"] + 1]
      BY <1>5, <1>7
    <3>3. Order["path"] + 1 = 6
      BY <1>4
    <3>. QED  BY <1>4, <1>5, <3>1, <3>2, <3>3
  <2>2. u.part["path"].ptr - u.base \in 0 .. Len(u.buf)
    <3>1. c[5] \in Int /\ c[6] \in Int
      BY <1>6
    <3>2. PICK i \in Int, j \in Int, lo \in Int, hi \in Int :
             i = x["path"] /\ j = y["path"] /\ lo = c[5] /\ hi = c[6]
      BY <2>1, <3>1
    <3>4. i \in 0 .. n
      <4>1. lo <= i /\ i <= j /\ j <= hi /\ 0 <= lo /\ hi <= n /\ n \in Int
        BY <1>2, <1>6, <2>1, <3>2
      <4>. QED  BY <4>1
    <3>3. (base + x["path"]) - base = x["path"]
      BY <2>1
    <3>. QED  BY <1>2, <1>3, <2>1, <3>2, <3>3, <3>4
  <2>. QED  BY <1>2, <2>2 DEF CanReplacePath
<1>8. CASE "path" \notin there
  <2>1. /\ "port" \notin there /\ y["host"] = n
        /\ \A i \in x["host"] .. n - 1 : SubSeq(text, i + 1, i + 1) # <<":">>
    BY <1>1, <1>2, <1>8 DEF IsParsed
  <2>2. PICK h : h = x["host"] /\ h \in Nat /\ h <= n
    <3>1. c[3] <= x["host"] /\ x["host"] \in Int /\ x["host"] <= n
      BY <1>4, <1>5, <2>1
    <3>. QED  BY <1>6, <3>1
  <2>3. HostAndPort(u) = SubSeq(text, h + 1, n)
    <3>1. u.part["port"] = Null /\ u.part["host"] = [ptr |-> base + h, len |-> n - h]
      BY <1>3, <1>4, <1>5, <2>1, <2>2
    <3>2. HostAndPort(u) = SubSeq(text, (base + h) - base + 1, (base + h) - base + (n - h))
      <4>1. /\ u.part["port"].len = 0 /\ u.part["host"].ptr = base + h
            /\ u.part["host"].len = n - h
        BY <3>1 DEF Null
      <4>2. HostAndPort(u) = TextOf(u, "host")
        BY <4>1 DEF HostAndPort
      <4>. QED  BY <1>3, <4>1, <4>2, Zenon DEF TextOf, TextAt
    <3>3. (base + h) - base + 1 = h + 1 /\ (base + h) - base + (n - h) = n
      BY <1>2, <2>2
    <3>. QED  BY <3>2, <3>3
  <2>4. PICK t : t = SubSeq(text, h + 1, n)
    OBVIOUS
  <2>5. Len(t) = n - h /\ \A i \in 1 .. Len(t) : t[i] = text[h + i]
    <3>1. \A i \in h + 1 .. n : text[i] \in S
      BY <1>2, <2>2
    <3>2. /\ Len(t) = IF h + 1 <= n THEN n - (h + 1) + 1 ELSE 0
          /\ \A i \in 1 .. n - (h + 1) + 1 : t[i] = text[h + 1 + i - 1]
      <4>0. h + 1 \in Int /\ n \in Int
        BY <1>2, <2>2
      <4>1. PICK m \in Int, j \in Int : m = h + 1 /\ j = n
        BY <4>0
      <4>2. \A i \in m .. j : text[i] \in S
        BY <3>1, <4>1
      <4>3. /\ Len(SubSeq(text, m, j)) = IF m <= j THEN j - m + 1 ELSE 0
            /\ \A i \in 1 .. j - m + 1 : SubSeq(text, m, j)[i] = text[m + i - 1]
        BY <4>2, SubSeqProperties
      <4>. QED  BY <2>4, <4>1, <4>3, Zenon
    <3>3. Len(t) = n - h
      BY <1>2, <2>2, <3>2
    <3>4. ASSUME NEW i \in 1 .. Len(t) PROVE t[i] = text[h + i]
      <4>1. h + 1 + i - 1 = h + i /\ i \in 1 .. n - (h + 1) + 1
        BY <1>2, <2>2, <3>3
      <4>. QED  BY <3>2, <4>1
    <3>. QED  BY <3>3, <3>4
  <2>6. ASSUME NEW i \in 1 .. Len(t) PROVE t[i] # ":"
    <3>1. PICK k : k = h + i - 1 /\ k \in h .. n - 1 /\ k + 1 = h + i /\ k + 1 \in 1 .. Len(text)
      BY <1>2, <2>2, <2>5
    <3>2. SubSeq(text, k + 1, k + 1) = <<text[k + 1]>>
      <4>1. PICK m \in 1 .. Len(text) : m = k + 1
        BY <3>1
      <4>2. \A j \in m .. m : text[j] \in S
        OBVIOUS
      <4>3. PICK q : q = SubSeq(text, m, m)
        OBVIOUS
      <4>4. /\ q \in Seq(S) /\ Len(q) = IF m <= m THEN m - m + 1 ELSE 0
            /\ \A j \in 1 .. m - m + 1 : q[j] = text[m + j - 1]
        BY <4>2, <4>3, SubSeqProperties
      <4>5. m - m + 1 = 1 /\ m <= m /\ m + 1 - 1 = m /\ 1 \in 1 .. 1
        OBVIOUS
      <4>6. Len(q) = 1 /\ q[1] = text[m]
        BY <4>4, <4>5
      <4>7. q = <<q[1]>>
        BY <4>4, <4>6
      <4>. QED  BY <4>1, <4>3, <4>6, <4>7
    <3>3. SubSeq(text, k + 1, k + 1) # <<":">>
      BY <2>1, <2>2, <3>1
    <3>. QED  BY <2>5, <3>1, <3>2, <3>3
  <2>7. ConsumeEndpoint(t) = <<>>
    BY <2>6, NoColonNoEndpoint
  <2>. QED  BY <1>2, <2>3, <2>4, <2>7
<1>. QED  BY <1>7, <1>8

-----------------------------------------------------------------------------
(* What operator<< makes of the parts of a URL.                            *)
LEMMA PrintedIsText ==
    ASSUME NEW S, NEW c \in [Parts -> Seq(S)], {":", "/", "@", "?", "#"} \subseteq S
    PROVE  Printed(c) \in Seq(S)
<1>. DEFINE With(before, text, after) == IF text = <<>> THEN <<>> ELSE before \o text \o after
<1>1. \A p \in Parts : c[p] \in Seq(S)
  OBVIOUS
<1>2. ASSUME NEW before \in Seq(S), NEW text \in Seq(S), NEW after \in Seq(S)
      PROVE  With(before, text, after) \in Seq(S)
  <2>1. before \o text \o after \in Seq(S)
    BY ConcatProperties
  <2>. QED  BY <2>1, EmptySeq
<1>3. /\ <<>> \in Seq(S) /\ <<":", "/", "/">> \in Seq(S) /\ <<"@">> \in Seq(S)
      /\ <<":">> \in Seq(S) /\ <<"?">> \in Seq(S) /\ <<"#">> \in Seq(S)
  OBVIOUS
<1>4. /\ c["scheme"] \in Seq(S) /\ c["userinfo"] \in Seq(S) /\ c["host"] \in Seq(S)
      /\ c["port"] \in Seq(S) /\ c["path"] \in Seq(S) /\ c["query"] \in Seq(S)
      /\ c["fragment"] \in Seq(S)
  BY <1>1 DEF Parts
<1>5. PICK p1, p2, p3, p4, p5 :
         /\ p1 = With(<<>>, c["scheme"], <<":", "/", "/">>)
         /\ p2 = With(<<>>, c["userinfo"], <<"@">>)
         /\ p3 = With(<<":">>, c["port"], <<>>)
         /\ p4 = With(<<"?">>, c["query"], <<>>)
         /\ p5 = With(<<"#">>, c["fragment"], <<>>)
  OBVIOUS
<1>6. Printed(c) = p1 \o p2 \o c["host"] \o p3 \o c["path"] \o p4 \o p5
  BY <1>5 DEF Printed
<1>. HIDE DEF With
<1>7. /\ p1 \in Seq(S) /\ p2 \in Seq(S) /\ p3 \in Seq(S) /\ p4 \in Seq(S) /\ p5 \in Seq(S)
  BY <1>2, <1>3, <1>4, <1>5
<1>. QED  BY <1>4, <1>6, <1>7, ConcatProperties

-----------------------------------------------------------------------------
(* Powers, and words that have room for some of them.                       *)

IsPower(p, b, n) == p = [i \in 0 .. n |-> IF i = 0 THEN 1 ELSE b * p[i - 1]]

LEMMA PowerIs ==
    ASSUME NEW b \in Nat, NEW n \in Nat
    PROVE  \E p : IsPower(p, b, n) /\ Power(b, n) = p[n]
<1>. DEFINE G == [i \in 1 .. n |-> [x \in Nat |-> b * x]]
<1>1. G \in [1 .. n -> [Nat -> Nat]]
  OBVIOUS
<1>2. PICK f \in [0 .. n -> Nat] : f[0] = 1 /\ \A i \in 1 .. n : f[i] = G[i][f[i - 1]]
  <2>. HIDE DEF G
  <2>1. PICK V, base : V = Nat /\ base = 1 /\ base \in V /\ G \in [1 .. n -> [V -> V]]
    BY <1>1
  <2>2. \E f : IsRecursive(f, V, base, n, G)
    BY <2>1, Recursion
  <2>. QED  BY <2>1, <2>2 DEF IsRecursive
<1>3. ASSUME NEW i \in 0 .. n PROVE f[i] = IF i = 0 THEN 1 ELSE b * f[i - 1]
  <2>1. CASE i # 0
    <3>1. i \in 1 .. n /\ f[i - 1] \in Nat
      BY <2>1
    <3>. QED  BY <1>2, <2>1, <3>1
  <2>. QED  BY <1>2, <2>1
<1>4. IsPower(f, b, n)
  <2>1. f = [i \in 0 .. n |-> f[i]]
    OBVIOUS
  <2>. QED  BY <1>3, <2>1 DEF IsPower
<1>5. PICK p : p = CHOOSE q : IsPower(q, b, n)
  OBVIOUS
<1>6. Power(b, n) = p[n]
  BY <1>5 DEF Power, IsPower
<1>7. IsPower(p, b, n)
  BY <1>4, <1>5, Zenon
<1>. QED  BY <1>6, <1>7

LEMMA PowersAgree ==
    ASSUME NEW b \in Nat, NEW n \in Nat, NEW m \in Nat, NEW p, NEW q,
           IsPower(p, b, n), IsPower(q, b, m)
    PROVE  \A i \in Nat : i <= n /\ i <= m => p[i] \in Nat /\ p[i] = q[i]
<1>. DEFINE K == {i \in Nat : i <= n /\ i <= m => p[i] \in Nat /\ p[i] = q[i]}
<1>0. /\ \A i \in 0 .. n : p[i] = IF i = 0 THEN 1 ELSE b * p[i - 1]
      /\ \A i \in 0 .. m : q[i] = IF i = 0 THEN 1 ELSE b * q[i - 1]
  BY DEF IsPower
<1>1. 0 \in K
  BY <1>0
<1>2. ASSUME NEW i \in Nat, i \in K PROVE i + 1 \in K
  <2>. SUFFICES ASSUME i + 1 <= n, i + 1 <= m PROVE p[i + 1] \in Nat /\ p[i + 1] = q[i + 1]
    OBVIOUS
  <2>1. i + 1 \in 0 .. n /\ i + 1 \in 0 .. m /\ i + 1 # 0 /\ i + 1 - 1 = i
    OBVIOUS
  <2>2. p[i + 1] = b * p[i] /\ q[i + 1] = b * q[i]
    BY <1>0, <2>1
  <2>. QED  BY <1>2, <2>2
<1>3. \A i \in Nat : i \in K
  <2>. HIDE DEF K
  <2>. QED  BY <1>1, <1>2, Induction
<1>. QED  BY <1>3

LEMMA Powers ==
    ASSUME NEW b \in Nat, NEW n \in Nat
    PROVE  Power(b, 0) = 1 /\ Power(b, n) \in Nat /\ Power(b, n + 1) = b * Power(b, n)
<1>1. PICK p : IsPower(p, b, n) /\ Power(b, n) = p[n]
  BY PowerIs
<1>2. PICK q : IsPower(q, b, n + 1) /\ Power(b, n + 1) = q[n + 1]
  BY PowerIs
<1>3. PICK z : IsPower(z, b, 0) /\ Power(b, 0) = z[0]
  BY PowerIs
<1>4. p[n] \in Nat /\ p[n] = q[n]
  <2>1. n <= n /\ n <= n + 1 /\ n + 1 \in Nat
    OBVIOUS
  <2>. QED  BY <1>1, <1>2, <2>1, PowersAgree
<1>5. q[n + 1] = b * q[n]
  <2>1. n + 1 \in 0 .. n + 1 /\ n + 1 # 0 /\ n + 1 - 1 = n
    OBVIOUS
  <2>. QED  BY <1>2, <2>1 DEF IsPower
<1>6. z[0] = 1
  BY <1>3 DEF IsPower
<1>. QED  BY <1>1, <1>2, <1>3, <1>4, <1>5, <1>6

(* What a remainder is.                                                    *)
LEMMA Remainder ==
    ASSUME NEW b \in Nat \ {0}, NEW q \in Nat, NEW s \in Nat, s < b, NEW t, t = b * q + s
    PROVE  t % b = s
OBVIOUS

LEMMA Quotient ==
    ASSUME NEW t \in Nat, NEW b \in Nat \ {0}
    PROVE  \E q, s : q \in Nat /\ s \in Nat /\ s < b /\ t = b * q + s
<1>1. t = b * (t \div b) + (t % b) /\ t % b \in 0 .. b - 1 /\ t \div b \in Nat
  OBVIOUS
<1>2. PICK q \in Nat, s \in Nat : q = t \div b /\ s = t % b /\ s < b
  BY <1>1
<1>3. t = b * q + s
  BY <1>1, <1>2
<1>. QED  BY <1>2, <1>3

LEMMA PowersOfSums ==
    ASSUME NEW b \in Nat \ {0}, NEW n \in Nat, NEW k \in Nat
    PROVE  Power(b, n + k) = Power(b, n) * Power(b, k) /\ Power(b, k) \in Nat \ {0}
<1>. DEFINE K == {i \in Nat : Power(b, n + i) = Power(b, n) * Power(b, i) /\ Power(b, i) # 0}
<1>0. \A i \in Nat : Power(b, i) \in Nat /\ Power(b, i + 1) = b * Power(b, i) /\ Power(b, 0) = 1
  BY Powers
<1>1. 0 \in K
  BY <1>0
<1>2. ASSUME NEW i \in Nat, i \in K PROVE i + 1 \in K
  <2>1. PICK p \in Nat, q \in Nat : p = Power(b, n) /\ q = Power(b, i)
    BY <1>0
  <2>2. Power(b, n + (i + 1)) = b * (p * q)
    <3>1. n + (i + 1) = (n + i) + 1 /\ n + i \in Nat
      OBVIOUS
    <3>. QED  BY <1>0, <1>2, <2>1, <3>1
  <2>3. Power(b, i + 1) = b * q /\ q # 0
    BY <1>0, <1>2, <2>1
  <2>4. b * (p * q) = p * (b * q) /\ b * q # 0
    BY <2>3
  <2>. QED  BY <2>1, <2>2, <2>3, <2>4
<1>3. k \in K
  <2>. HIDE DEF K
  <2>. QED  BY <1>1, <1>2, Induction
<1>. QED  BY <1>0, <1>3

LEMMA PowersGrow ==
    ASSUME NEW b \in Nat \ {0}, NEW n \in Nat, NEW m \in Nat, n <= m
    PROVE  Power(b, n) <= Power(b, m)
<1>1. PICK k \in Nat : m = n + k
  <2>1. m - n \in Nat /\ m = n + (m - n)
    OBVIOUS
  <2>. QED  BY <2>1
<1>2. PICK p \in Nat, q \in Nat \ {0} : Power(b, n) = p /\ Power(b, k) = q /\ Power(b, m) = p * q
  <2>1. Power(b, n) \in Nat
    BY Powers
  <2>2. Power(b, n + k) = Power(b, n) * Power(b, k) /\ Power(b, k) \in Nat \ {0}
    BY PowersOfSums
  <2>. QED  BY <1>1, <2>1, <2>2
<1>3. p <= p * q
  OBVIOUS
<1>. QED  BY <1>2, <1>3

LEMMA TwoAndTen ==
    ASSUME NEW b \in {2, 10}, NEW n \in Nat
    PROVE  Power(b, 0) = 1 /\ Power(b, n) \in Nat \ {0} /\ Power(b, n + 1) = b * Power(b, n)
<1>1. b \in Nat \ {0} /\ 0 \in Nat
  OBVIOUS
<1>2. Power(b, 0 + n) = Power(b, 0) * Power(b, n) /\ Power(b, n) \in Nat \ {0}
  BY <1>1, PowersOfSums
<1>. QED  BY <1>1, <1>2, Powers

LEMMA TwoIsLess ==
    ASSUME NEW n \in Nat
    PROVE  Power(2, n) <= Power(10, n)
<1>. DEFINE K == {i \in Nat : Power(2, i) <= Power(10, i)}
<1>0. \A b \in {2, 10}, i \in Nat :
         Power(b, 0) = 1 /\ Power(b, i) \in Nat \ {0} /\ Power(b, i + 1) = b * Power(b, i)
  BY TwoAndTen
<1>1. 0 \in K
  BY <1>0
<1>2. ASSUME NEW i \in Nat, i \in K PROVE i + 1 \in K
  <2>1. PICK p \in Nat, q \in Nat : p = Power(2, i) /\ q = Power(10, i) /\ p <= q
    BY <1>0, <1>2
  <2>2. Power(2, i + 1) = 2 * p /\ Power(10, i + 1) = 10 * q
    BY <1>0, <2>1
  <2>. QED  BY <2>1, <2>2
<1>3. n \in K
  <2>. HIDE DEF K
  <2>. QED  BY <1>1, <1>2, Induction
<1>. QED  BY <1>3

LEMMA WordFacts ==
    /\ WordBits \in Nat /\ PortBits \in Nat \ {0} /\ WordSize \in Nat \ {0} /\ MaxPort \in Nat
    /\ WordSize = Power(2, WordBits) /\ MaxPort = Power(2, PortBits) - 1
    /\ 9 * Power(10, PortBits - 1) + MaxPort < WordSize
<1>1. WordBits \in Nat /\ PortBits \in Nat \ {0}
  BY TextAssumption, Zenon
<1>2. 9 * Power(10, PortBits - 1) + MaxPort < WordSize
  BY TextAssumption, Zenon
<1>3. WordSize = Power(2, WordBits) /\ MaxPort = Power(2, PortBits) - 1
  BY DEF WordSize, MaxPort
<1>4. Power(2, WordBits) \in Nat \ {0} /\ Power(2, PortBits) \in Nat \ {0}
  BY <1>1, TwoAndTen
<1>5. MaxPort \in Nat
  BY <1>3, <1>4
<1>. QED  BY <1>1, <1>2, <1>3, <1>4, <1>5

IsMultiplier(m, n) == m = [i \in 0 .. n |-> IF i = 0 THEN 1 ELSE (m[i - 1] * 10) % WordSize]

(* The multiplier of a digit is its power of ten as long as a word has     *)
(* room for that, and it is an odd multiple of a power of two later on.    *)
LEMMA Multipliers ==
    ASSUME NEW n \in Nat, n + 2 < WordBits, NEW m, IsMultiplier(m, n), NEW k \in 0 .. n
    PROVE  /\ m[k] \in Nat
           /\ k < PortBits => m[k] = Power(10, k)
           /\ \E o \in Nat : m[k] = Power(2, k) * (2 * o + 1)
<1>. DEFINE Odd(i) == \E o \in Nat : m[i] = Power(2, i) * (2 * o + 1)
            K == {i \in Nat : i <= n => /\ m[i] \in Nat
                                        /\ i < PortBits => m[i] = Power(10, i)
                                        /\ Odd(i)}
<1>0. /\ WordBits \in Nat /\ PortBits \in Nat \ {0} /\ WordSize \in Nat \ {0} /\ MaxPort \in Nat
      /\ WordSize = Power(2, WordBits)
      /\ 9 * Power(10, PortBits - 1) + MaxPort < WordSize
  BY WordFacts
<1>1. \A i \in 0 .. n : m[i] = IF i = 0 THEN 1 ELSE (m[i - 1] * 10) % WordSize
  BY DEF IsMultiplier
<1>2. 0 \in K
  <2>1. Power(2, 0) = 1 /\ Power(10, 0) = 1 /\ m[0] = 1
    <3>1. 0 \in 0 .. n /\ 0 \in Nat
      OBVIOUS
    <3>2. Power(2, 0) = 1 /\ Power(10, 0) = 1
      BY <3>1, TwoAndTen
    <3>. QED  BY <1>1, <3>1, <3>2
  <2>2. Odd(0)
    <3>1. m[0] = Power(2, 0) * (2 * 0 + 1)
      BY <2>1
    <3>. QED  BY <3>1
  <2>. HIDE DEF Odd
  <2>. QED  BY <2>1, <2>2
<1>3. ASSUME NEW i \in Nat, i \in K PROVE i + 1 \in K
  <2>. SUFFICES ASSUME i + 1 <= n
                PROVE  /\ m[i + 1] \in Nat
                       /\ i + 1 < PortBits => m[i + 1] = Power(10, i + 1)
                       /\ Odd(i + 1)
    OBVIOUS
  <2>1. PICK x \in Nat : x = m[i] /\ m[i + 1] = (x * 10) % WordSize
    <3>1. i + 1 \in 0 .. n /\ i + 1 # 0 /\ i + 1 - 1 = i
      OBVIOUS
    <3>. QED  BY <1>1, <1>3, <3>1
  <2>2. x * 10 \in Nat /\ m[i + 1] \in Nat
    BY <1>0, <2>1
  <2>3. ASSUME i + 1 < PortBits PROVE m[i + 1] = Power(10, i + 1)
    <3>1. x * 10 = Power(10, i + 1)
      <4>1. Power(10, i + 1) = 10 * Power(10, i) /\ x = Power(10, i)
        BY <1>0, <1>3, <2>1, <2>3, TwoAndTen
      <4>. QED  BY <4>1
    <3>2. Power(10, i + 1) <= Power(10, PortBits - 1)
      <4>1. i + 1 \in Nat /\ PortBits - 1 \in Nat /\ i + 1 <= PortBits - 1 /\ 10 \in Nat \ {0}
        BY <1>0, <2>3
      <4>. QED  BY <4>1, PowersGrow
    <3>3. PICK p \in Nat, q \in Nat : p = Power(10, i + 1) /\ q = Power(10, PortBits - 1)
      <4>1. i + 1 \in Nat /\ PortBits - 1 \in Nat
        BY <1>0
      <4>. QED  BY <4>1, TwoAndTen
    <3>4. p < WordSize
      BY <1>0, <3>2, <3>3
    <3>5. p = WordSize * 0 + p
      BY <1>0, <3>4
    <3>6. p % WordSize = p
      BY <1>0, <3>4, <3>5, Remainder
    <3>. QED  BY <2>1, <3>1, <3>3, <3>6
  <2>4. Odd(i + 1)
    <3>1. PICK o \in Nat : x = Power(2, i) * (2 * o + 1)
      BY <1>3, <2>1
    <3>2. PICK j \in Nat : WordBits = (i + 1) + (j + 1)
      <4>1. WordBits - i - 2 \in Nat /\ WordBits = (i + 1) + ((WordBits - i - 2) + 1)
        BY <1>0
      <4>. QED  BY <4>1
    <3>3. PICK p \in Nat \ {0}, y \in Nat \ {0} :
             /\ p = Power(2, i + 1) /\ p = 2 * Power(2, i) /\ y = Power(2, j)
             /\ WordSize = p * (2 * y)
      <4>0. 2 \in Nat \ {0} /\ i + 1 \in Nat /\ j + 1 \in Nat
        OBVIOUS
      <4>1. Power(2, WordBits) = Power(2, i + 1) * Power(2, j + 1)
        BY <3>2, <4>0, PowersOfSums
      <4>2. Power(2, i + 1) = 2 * Power(2, i) /\ Power(2, j + 1) = 2 * Power(2, j)
        BY TwoAndTen
      <4>3. Power(2, i + 1) \in Nat \ {0} /\ Power(2, j) \in Nat \ {0}
        BY <4>0, TwoAndTen
      <4>. QED  BY <1>0, <4>1, <4>2, <4>3
    <3>4. PICK a \in Nat : a = Power(2, i)
      BY Powers
    <3>5. x * 10 = p * (5 * (2 * o + 1))
      <4>1. (a * (2 * o + 1)) * 10 = (2 * a) * (5 * (2 * o + 1))
        OBVIOUS
      <4>. QED  BY <3>1, <3>3, <3>4, <4>1
    <3>6. PICK q \in Nat, s \in Nat : s < 2 * y /\ 5 * (2 * o + 1) = (2 * y) * q + s
      <4>1. PICK t \in Nat, b \in Nat \ {0} : t = 5 * (2 * o + 1) /\ b = 2 * y
        OBVIOUS
      <4>2. \E q, s : q \in Nat /\ s \in Nat /\ s < b /\ t = b * q + s
        BY Quotient
      <4>. QED  BY <4>1, <4>2
    <3>7. PICK h \in Nat : s = 2 * h + 1
      <4>1. PICK z \in Nat : z = y * q
        OBVIOUS
      <4>2. (2 * y) * q = 2 * z
        BY <4>1
      <4>3. 10 * o + 5 = 2 * z + s
        BY <3>6, <4>2
      <4>4. 5 * o + 2 - z \in Nat /\ s = 2 * (5 * o + 2 - z) + 1
        BY <4>3
      <4>. QED  BY <4>4
    <3>8. x * 10 = WordSize * q + p * s
      <4>1. p * ((2 * y) * q + s) = (p * (2 * y)) * q + p * s
        OBVIOUS
      <4>. QED  BY <3>3, <3>5, <3>6, <4>1
    <3>9. p * s \in Nat /\ p * s < WordSize
      <4>1. s < 2 * y /\ s \in Nat /\ 2 * y \in Nat
        BY <3>6
      <4>2. p * s < p * (2 * y) /\ p * s \in Nat
        BY <4>1
      <4>. QED  BY <1>0, <3>3, <4>2
    <3>10. m[i + 1] = p * s
      <4>1. PICK t \in Nat, z \in Nat : t = x * 10 /\ z = p * s /\ z < WordSize
        BY <2>2, <3>9
      <4>2. PICK w \in Nat \ {0} : w = WordSize /\ t = w * q + z /\ z < w
        BY <1>0, <3>8, <4>1
      <4>3. t % w = z
        BY <4>2, Remainder
      <4>. QED  BY <2>1, <4>1, <4>2, <4>3
    <3>. QED  BY <3>3, <3>7, <3>10
  <2>. QED  BY <2>2, <2>3, <2>4
<1>4. k \in K
  <2>. HIDE DEF K
  <2>. QED  BY <1>2, <1>3, Induction
<1>. QED  BY <1>4

-----------------------------------------------------------------------------
(* Numbers.  consume_number adds the digits from the last to the first, in *)
(* words that overflow: a sum is exact up to the limit, and no digit that  *)
(* is beyond it is lost.                                                   *)

(* A digit is added to a number that is a port: as many digits as a port   *)
(* has bits are added as they are, and of the others only a zero does not  *)
(* make the sum too large for a port, for it is a multiple of a power of   *)
(* two then.                                                               *)
LEMMA NearDigit ==
    ASSUME NEW i \in Nat, i < PortBits, NEW d \in 0 .. 9, NEW r \in Nat, r <= MaxPort
    PROVE  (r + Power(10, i) * d) % WordSize = r + Power(10, i) * d
<1>0. /\ PortBits \in Nat \ {0} /\ WordSize \in Nat \ {0} /\ MaxPort \in Nat
      /\ 9 * Power(10, PortBits - 1) + MaxPort < WordSize
  BY WordFacts
<1>1. Power(10, i) <= Power(10, PortBits - 1)
  <2>1. PortBits - 1 \in Nat /\ i <= PortBits - 1 /\ 10 \in Nat \ {0}
    BY <1>0
  <2>. QED  BY <2>1, PowersGrow
<1>2. PICK p \in Nat, q \in Nat : p = Power(10, i) /\ q = Power(10, PortBits - 1) /\ p <= q
  <2>1. PortBits - 1 \in Nat
    BY <1>0
  <2>. QED  BY <1>1, <2>1, TwoAndTen
<1>3. p * d <= 9 * q /\ p * d \in Nat
  <2>1. p * d \in Nat /\ p * d <= p * 9
    OBVIOUS
  <2>. QED  BY <1>2, <2>1
<1>4. PICK t \in Nat, w \in Nat \ {0} : t = r + p * d /\ w = WordSize /\ t < w
  BY <1>0, <1>2, <1>3
<1>5. t = w * 0 + t /\ 0 \in Nat
  OBVIOUS
<1>6. t % w = t
  BY <1>4, <1>5, Remainder
<1>. QED  BY <1>2, <1>4, <1>6

LEMMA OddTimesDigit ==
    ASSUME NEW o \in Nat, NEW d \in 1 .. 9, NEW z \in Nat
    PROVE  (2 * o + 1) * d # 16 * z
<1>1. d \in {1, 2, 3, 4, 5, 6, 7, 8, 9}
  OBVIOUS
<1>. QED  BY <1>1

LEMMA FarDigit ==
    ASSUME NEW i \in Nat, PortBits <= i, i + 3 < WordBits, NEW o \in Nat, NEW d \in 1 .. 9,
           NEW r \in Nat, r <= MaxPort
    PROVE  (r + Power(2, i) * (2 * o + 1) * d) % WordSize > MaxPort
<1>0. /\ PortBits \in Nat \ {0} /\ WordBits \in Nat /\ WordSize \in Nat \ {0} /\ MaxPort \in Nat
      /\ WordSize = Power(2, WordBits) /\ MaxPort = Power(2, PortBits) - 1
  BY WordFacts
<1>1. PICK j \in Nat : WordBits = i + (4 + j)
  <2>1. WordBits - i - 4 \in Nat /\ WordBits = i + (4 + (WordBits - i - 4))
    BY <1>0
  <2>. QED  BY <2>1
<1>2. 2 \in Nat \ {0} /\ 4 \in Nat /\ 4 + j \in Nat
  OBVIOUS
<1>3. Power(2, 4) = 16
  <2>1. Power(2, 0) = 1 /\ Power(2, 0 + 1) = 2 * Power(2, 0)
    BY TwoAndTen
  <2>2. Power(2, 1 + 1) = 2 * Power(2, 1) /\ Power(2, 2 + 1) = 2 * Power(2, 2)
    BY TwoAndTen
  <2>3. Power(2, 3 + 1) = 2 * Power(2, 3)
    BY TwoAndTen
  <2>4. 0 + 1 = 1 /\ 1 + 1 = 2 /\ 2 + 1 = 3 /\ 3 + 1 = 4
    OBVIOUS
  <2>. QED  BY <2>1, <2>2, <2>3, <2>4
<1>4. PICK p \in Nat \ {0}, y \in Nat \ {0} :
         p = Power(2, i) /\ y = Power(2, j) /\ WordSize = p * (16 * y)
  <2>1. Power(2, i + (4 + j)) = Power(2, i) * Power(2, 4 + j)
    BY <1>2, PowersOfSums
  <2>2. Power(2, 4 + j) = Power(2, 4) * Power(2, j)
    BY <1>2, PowersOfSums
  <2>3. Power(2, i) \in Nat \ {0} /\ Power(2, j) \in Nat \ {0}
    BY TwoAndTen
  <2>. QED  BY <1>0, <1>1, <1>3, <2>1, <2>2, <2>3
<1>5. r < p /\ MaxPort < p
  <2>1. Power(2, PortBits) <= Power(2, i)
    BY <1>0, <1>2, PowersGrow
  <2>2. PICK x \in Nat : x = Power(2, PortBits)
    BY <1>0, TwoAndTen
  <2>. QED  BY <1>0, <1>4, <2>1, <2>2
<1>6. PICK q, s : q \in Nat /\ s \in Nat /\ s < 16 * y /\ (2 * o + 1) * d = (16 * y) * q + s
  <2>1. PICK t \in Nat, b \in Nat \ {0} : t = (2 * o + 1) * d /\ b = 16 * y
    OBVIOUS
  <2>2. \E q, s : q \in Nat /\ s \in Nat /\ s < b /\ t = b * q + s
    BY Quotient
  <2>. QED  BY <2>1, <2>2
<1>7. s >= 1
  <2>. SUFFICES ASSUME s = 0 PROVE FALSE
    BY <1>6
  <2>1. PICK z \in Nat : z = y * q
    BY <1>6
  <2>2. (16 * y) * q = 16 * z
    BY <1>6, <2>1
  <2>3. (2 * o + 1) * d = 16 * z
    BY <1>6, <2>2
  <2>. QED  BY <2>3, OddTimesDigit
<1>8. PICK x \in Nat : x = p * s + r /\ x < WordSize /\ x > MaxPort
  <2>1. p * s \in Nat /\ p * s >= p
    BY <1>6, <1>7
  <2>2. s + 1 <= 16 * y /\ s + 1 \in Nat
    BY <1>6
  <2>3. p * (s + 1) <= p * (16 * y)
    BY <2>2
  <2>4. p * (s + 1) = p * s + p
    BY <1>6
  <2>. QED  BY <1>0, <1>4, <1>5, <2>1, <2>3, <2>4
<1>9. r + p * (2 * o + 1) * d = WordSize * q + x
  <2>1. PICK e \in Nat, g \in Nat : e = (2 * o + 1) * d /\ g = (16 * y) * q /\ e = g + s
    BY <1>6
  <2>2. p * (2 * o + 1) * d = p * e
    BY <2>1
  <2>3. p * e = p * g + p * s
    BY <1>6, <2>1
  <2>4. p * g = (p * (16 * y)) * q
    BY <1>6, <2>1
  <2>. QED  BY <1>4, <1>6, <1>8, <2>2, <2>3, <2>4
<1>10. PICK t, w \in Nat \ {0} : t = r + p * (2 * o + 1) * d /\ w = WordSize /\ t = w * q + x /\ x < w
  BY <1>0, <1>8, <1>9
<1>11. t % w = x
  <2>1. t = w * q + x /\ x < w /\ q \in Nat
    BY <1>6, <1>10
  <2>. QED  BY <2>1, Remainder
<1>. QED  BY <1>4, <1>8, <1>10, <1>11

(* The sums of the digits D, the last one first: in a word, and exactly.   *)
IsSum(r, m, D, n) ==
    r = [i \in 0 .. n |-> IF i = 0 THEN 0 ELSE (r[i - 1] + m[i - 1] * D[i]) % WordSize]

IsExact(e, D, n) ==
    /\ e \in [0 .. n -> Nat] /\ e[0] = 0
    /\ \A i \in 1 .. n : e[i] = e[i - 1] + Power(10, i - 1) * D[i]

LEMMA ExactSum ==
    ASSUME NEW n \in Nat, NEW D \in [1 .. n -> 0 .. 9]
    PROVE  \E e : IsExact(e, D, n)
<1>. DEFINE G == [i \in 1 .. n |-> [x \in Nat |-> x + Power(10, i - 1) * D[i]]]
<1>1. \A i \in 1 .. n : Power(10, i - 1) \in Nat /\ D[i] \in Nat
  <2>. SUFFICES ASSUME NEW i \in 1 .. n PROVE Power(10, i - 1) \in Nat /\ D[i] \in Nat
    OBVIOUS
  <2>1. i - 1 \in Nat /\ D[i] \in Nat
    OBVIOUS
  <2>2. Power(10, i - 1) \in Nat
    <3>. HIDE DEF G
    <3>. QED  BY <2>1, TwoAndTen
  <2>. QED  BY <2>1, <2>2
<1>2. G \in [1 .. n -> [Nat -> Nat]]
  <2>1. ASSUME NEW i \in 1 .. n, NEW x \in Nat PROVE x + Power(10, i - 1) * D[i] \in Nat
    <3>. HIDE DEF G
    <3>1. PICK p \in Nat, d \in Nat : p = Power(10, i - 1) /\ d = D[i]
      BY <1>1
    <3>2. x + p * d \in Nat
      OBVIOUS
    <3>. QED  BY <3>1, <3>2
  <2>. QED  BY <2>1
<1>3. PICK f : f \in [0 .. n -> Nat] /\ f[0] = 0 /\ \A i \in 1 .. n : f[i] = G[i][f[i - 1]]
  <2>. HIDE DEF G
  <2>1. PICK V, base : V = Nat /\ base = 0 /\ base \in V /\ G \in [1 .. n -> [V -> V]]
    BY <1>2
  <2>2. \E f : IsRecursive(f, V, base, n, G)
    BY <2>1, Recursion
  <2>. QED  BY <2>1, <2>2 DEF IsRecursive
<1>4. ASSUME NEW i \in 1 .. n PROVE f[i] = f[i - 1] + Power(10, i - 1) * D[i]
  <2>1. f[i - 1] \in Nat
    BY <1>3
  <2>2. G[i][f[i - 1]] = f[i - 1] + Power(10, i - 1) * D[i]
    BY <2>1
  <2>. HIDE DEF G
  <2>. QED  BY <1>3, <2>2
<1>. QED  BY <1>3, <1>4 DEF IsExact

LEMMA Sums ==
    ASSUME NEW n \in Nat, n + 2 < WordBits, NEW D \in [1 .. n -> 0 .. 9],
           NEW m, IsMultiplier(m, n), NEW r, IsSum(r, m, D, n), NEW e, IsExact(e, D, n)
    PROVE  IF \A j \in 1 .. n : r[j] <= MaxPort THEN r[n] = e[n] /\ e[n] <= MaxPort
           ELSE (\E j \in 1 .. n : r[j] > MaxPort) /\ e[n] > MaxPort
<1>. DEFINE Fits(k) == \A j \in 1 .. k : r[j] <= MaxPort
            K == {k \in Nat : k <= n => /\ r[k] \in Nat
                                        /\ Fits(k) => r[k] = e[k] /\ r[k] <= MaxPort
                                        /\ ~Fits(k) => e[k] > MaxPort}
<1>0. /\ WordBits \in Nat /\ PortBits \in Nat \ {0} /\ WordSize \in Nat \ {0} /\ MaxPort \in Nat
      /\ MaxPort = Power(2, PortBits) - 1
  BY WordFacts
<1>1. 0 \in K
  <2>1. r[0] = 0 /\ e[0] = 0
    BY DEF IsSum, IsExact
  <2>2. Fits(0)
    OBVIOUS
  <2>. HIDE DEF Fits
  <2>. QED  BY <1>0, <2>1, <2>2
<1>2. ASSUME NEW k \in Nat, k \in K PROVE k + 1 \in K
  <2>. SUFFICES ASSUME k + 1 <= n
                PROVE  /\ r[k + 1] \in Nat
                       /\ Fits(k + 1) => r[k + 1] = e[k + 1] /\ r[k + 1] <= MaxPort
                       /\ ~Fits(k + 1) => e[k + 1] > MaxPort
    OBVIOUS
  <2>0. k + 1 \in 0 .. n /\ k + 1 \in 1 .. n /\ k + 1 # 0 /\ k + 1 - 1 = k /\ k \in 0 .. n
    OBVIOUS
  <2>1. PICK x \in Nat, d \in 0 .. 9, p \in Nat, a \in Nat, t \in Nat :
           /\ x = r[k] /\ d = D[k + 1] /\ p = m[k] /\ a = e[k] /\ t = Power(10, k)
    <3>1. r[k] \in Nat
      BY <1>2, <2>0
    <3>2. m[k] \in Nat
      BY <2>0, Multipliers
    <3>3. e[k] \in Nat /\ D[k + 1] \in 0 .. 9
      BY <2>0 DEF IsExact
    <3>4. Power(10, k) \in Nat
      BY TwoAndTen
    <3>. QED  BY <3>1, <3>2, <3>3, <3>4
  <2>2. r[k + 1] = (x + p * d) % WordSize
    BY <2>0, <2>1 DEF IsSum
  <2>3. e[k + 1] = a + t * d
    BY <2>0, <2>1 DEF IsExact
  <2>4. r[k + 1] \in Nat
    <3>1. x + p * d \in Nat
      OBVIOUS
    <3>. QED  BY <1>0, <2>2, <3>1
  <2>5. e[k + 1] >= a /\ (d # 0 => e[k + 1] >= t) /\ e[k + 1] \in Nat
    <3>1. t * d \in Nat /\ (d # 0 => t * d >= t)
      OBVIOUS
    <3>. QED  BY <2>3, <3>1
  <2>6. Fits(k + 1) <=> Fits(k) /\ r[k + 1] <= MaxPort
    <3>1. 1 .. k + 1 = (1 .. k) \cup {k + 1}
      OBVIOUS
    <3>. QED  BY <3>1
  <2>7. CASE ~Fits(k)
    <3>. HIDE DEF Fits
    <3>1. a > MaxPort
      BY <1>2, <2>0, <2>1, <2>7
    <3>2. e[k + 1] > MaxPort
      BY <1>0, <2>5, <3>1
    <3>. QED  BY <2>4, <2>6, <2>7, <3>2
  <2>8. CASE Fits(k)
    <3>. HIDE DEF Fits
    <3>1. x = a /\ x <= MaxPort
      BY <1>2, <2>0, <2>1, <2>8
    <3>2. CASE k < PortBits
      <4>1. m[k] = Power(10, k)
        BY <2>0, <3>2, Multipliers
      <4>2. (x + Power(10, k) * d) % WordSize = x + Power(10, k) * d
        BY <3>1, <3>2, NearDigit
      <4>3. r[k + 1] = e[k + 1]
        BY <2>1, <2>2, <2>3, <3>1, <4>1, <4>2
      <4>. QED  BY <1>0, <2>4, <2>6, <2>8, <4>3
    <3>3. CASE k >= PortBits /\ d = 0
      <4>1. p * d = 0 /\ t * d = 0 /\ x + 0 = x
        BY <3>3
      <4>2. x < WordSize
        <5>1. PICK q \in Nat : q = Power(10, PortBits - 1)
          <6>1. PortBits - 1 \in Nat
            BY <1>0
          <6>. QED  BY <6>1, TwoAndTen
        <5>2. 9 * q + MaxPort < WordSize
          BY <5>1, WordFacts
        <5>. QED  BY <1>0, <3>1, <5>2
      <4>3. r[k + 1] = x
        <5>1. PICK w \in Nat \ {0} : w = WordSize /\ x < w
          BY <1>0, <4>2
        <5>2. x % w = x
          BY <5>1
        <5>. QED  BY <2>2, <4>1, <5>1, <5>2
      <4>4. e[k + 1] = x
        BY <2>3, <3>1, <4>1
      <4>. QED  BY <2>4, <2>6, <2>8, <3>1, <4>3, <4>4
    <3>4. CASE k >= PortBits /\ d # 0
      <4>1. PICK o \in Nat : p = Power(2, k) * (2 * o + 1)
        <5>1. \E o \in Nat : m[k] = Power(2, k) * (2 * o + 1)
          BY <2>0, Multipliers
        <5>. QED  BY <2>1, <5>1
      <4>2. (x + Power(2, k) * (2 * o + 1) * d) % WordSize > MaxPort
        <5>1. PortBits <= k /\ k + 3 < WordBits /\ d \in 1 .. 9
          BY <1>0, <3>4
        <5>. QED  BY <3>1, <5>1, FarDigit
      <4>3. r[k + 1] > MaxPort
        BY <2>2, <4>1, <4>2
      <4>4. t > MaxPort
        <5>1. Power(2, PortBits) <= Power(2, k)
          <6>1. PortBits \in Nat /\ PortBits <= k /\ 2 \in Nat \ {0}
            BY <1>0, <3>4
          <6>. QED  BY <6>1, PowersGrow
        <5>2. Power(2, k) <= Power(10, k)
          BY TwoIsLess
        <5>3. PICK u \in Nat, v \in Nat : u = Power(2, PortBits) /\ v = Power(2, k)
          <6>1. PortBits \in Nat
            BY <1>0
          <6>. QED  BY <6>1, TwoAndTen
        <5>. QED  BY <1>0, <2>1, <5>1, <5>2, <5>3
      <4>. QED  BY <1>0, <2>4, <2>5, <2>6, <3>4, <4>3, <4>4
    <3>5. k < PortBits \/ k >= PortBits
      BY <1>0
    <3>. QED  BY <3>2, <3>3, <3>4, <3>5
  <2>. QED  BY <2>7, <2>8
<1>3. \A k \in Nat : k \in K
  <2>. HIDE DEF K
  <2>. QED  BY <1>1, <1>2, Induction
<1>4. \A j \in 1 .. n : r[j] \in Nat
  <2>. SUFFICES ASSUME NEW j \in 1 .. n PROVE r[j] \in Nat
    OBVIOUS
  <2>1. j \in Nat /\ j <= n /\ j \in K
    BY <1>3
  <2>. QED  BY <2>1
<1>5. (Fits(n) => r[n] = e[n] /\ r[n] <= MaxPort) /\ (~Fits(n) => e[n] > MaxPort)
  <2>1. n <= n /\ n \in K
    BY <1>3
  <2>. HIDE DEF Fits
  <2>. QED  BY <2>1
<1>6. CASE Fits(n)
  BY <1>5, <1>6
<1>7. CASE ~Fits(n)
  BY <1>0, <1>4, <1>5, <1>7
<1>. QED  BY <1>6, <1>7

(* The number that is read from the first digit to the last, as far as it  *)
(* is a port.                                                              *)
IsValue(v, numeral, n) ==
    v = [i \in 0 .. n |->
            IF i = 0 THEN 0
            ELSE IF v[i - 1] > MaxPort THEN v[i - 1] ELSE 10 * v[i - 1] + Digit(numeral[i])]

LEMMA ValueIs ==
    ASSUME NEW numeral, NEW n \in Nat, n = Len(numeral), \A i \in 1 .. n : Digit(numeral[i]) \in 0 .. 9
    PROVE  \E v : IsValue(v, numeral, n) /\ Value(numeral) = v[n]
<1>0. MaxPort \in Nat
  BY WordFacts
<1>. DEFINE G == [i \in 1 .. n |->
                    [x \in Nat |-> IF x > MaxPort THEN x ELSE 10 * x + Digit(numeral[i])]]
<1>1. G \in [1 .. n -> [Nat -> Nat]]
  <2>1. ASSUME NEW i \in 1 .. n, NEW x \in Nat
        PROVE  (IF x > MaxPort THEN x ELSE 10 * x + Digit(numeral[i])) \in Nat
    <3>1. PICK d \in Nat : d = Digit(numeral[i])
      OBVIOUS
    <3>. QED  BY <3>1
  <2>. QED  BY <2>1
<1>2. PICK f : f \in [0 .. n -> Nat] /\ f[0] = 0 /\ \A i \in 1 .. n : f[i] = G[i][f[i - 1]]
  <2>. HIDE DEF G
  <2>1. PICK V, base : V = Nat /\ base = 0 /\ base \in V /\ G \in [1 .. n -> [V -> V]]
    BY <1>1
  <2>2. \E f : IsRecursive(f, V, base, n, G)
    BY <2>1, Recursion
  <2>. QED  BY <2>1, <2>2 DEF IsRecursive
<1>3. ASSUME NEW i \in 0 .. n
      PROVE  f[i] = IF i = 0 THEN 0
                    ELSE IF f[i - 1] > MaxPort THEN f[i - 1] ELSE 10 * f[i - 1] + Digit(numeral[i])
  <2>1. CASE i # 0
    <3>1. i \in 1 .. n /\ f[i - 1] \in Nat
      BY <1>2, <2>1
    <3>. QED  BY <1>2, <2>1, <3>1
  <2>. QED  BY <1>2, <2>1
<1>4. IsValue(f, numeral, n)
  <2>1. f = [i \in 0 .. n |-> f[i]]
    BY <1>2
  <2>. QED  BY <1>3, <2>1 DEF IsValue
<1>5. PICK v : v = CHOOSE q : IsValue(q, numeral, n)
  OBVIOUS
<1>6. Value(numeral) = v[n]
  BY <1>5 DEF Value, IsValue
<1>7. IsValue(v, numeral, n)
  BY <1>4, <1>5, Zenon
<1>. QED  BY <1>6, <1>7

LEMMA FromTheFirst ==
    ASSUME NEW n \in Nat, NEW numeral, NEW D \in [1 .. n -> 0 .. 9],
           \A i \in 1 .. n : D[i] = Digit(numeral[n - i + 1]),
           NEW e, IsExact(e, D, n), NEW v, IsValue(v, numeral, n)
    PROVE  /\ v[n] \in Nat /\ e[n] \in Nat
           /\ IF v[n] <= MaxPort THEN v[n] = e[n] ELSE e[n] > MaxPort
<1>. DEFINE K == {j \in Nat : j <= n => /\ v[j] \in Nat
                                        /\ v[j] <= MaxPort => v[j] * Power(10, n - j) + e[n - j] = e[n]
                                        /\ ~(v[j] <= MaxPort) => e[n] > MaxPort}
<1>0. MaxPort \in Nat /\ e[n] \in Nat
  BY WordFacts DEF IsExact
<1>1. 0 \in K
  <2>1. v[0] = 0
    BY DEF IsValue
  <2>2. PICK p \in Nat : p = Power(10, n - 0)
    <3>1. n - 0 \in Nat
      OBVIOUS
    <3>. QED  BY <3>1, TwoAndTen
  <2>3. 0 * p + e[n - 0] = e[n]
    BY <1>0
  <2>. QED  BY <1>0, <2>1, <2>2, <2>3
<1>2. ASSUME NEW j \in Nat, j \in K PROVE j + 1 \in K
  <2>. SUFFICES ASSUME j + 1 <= n
                PROVE  /\ v[j + 1] \in Nat
                       /\ v[j + 1] <= MaxPort =>
                             v[j + 1] * Power(10, n - (j + 1)) + e[n - (j + 1)] = e[n]
                       /\ ~(v[j + 1] <= MaxPort) => e[n] > MaxPort
    OBVIOUS
  <2>1. PICK k \in Nat : k = n - (j + 1) /\ k + 1 = n - j /\ k + 1 \in 1 .. n /\ n - (k + 1) + 1 = j + 1
    <3>1. n - (j + 1) \in Nat
      OBVIOUS
    <3>. QED  BY <3>1
  <2>2. PICK x \in Nat, d \in 0 .. 9, p \in Nat \ {0}, a \in Nat :
           /\ x = v[j] /\ d = D[k + 1] /\ p = Power(10, k) /\ a = e[k]
           /\ Power(10, k + 1) = 10 * p /\ d = Digit(numeral[j + 1])
    <3>1. v[j] \in Nat
      BY <1>2
    <3>2. D[k + 1] \in 0 .. 9 /\ D[k + 1] = Digit(numeral[j + 1])
      BY <2>1
    <3>3. Power(10, k) \in Nat \ {0} /\ Power(10, k + 1) = 10 * Power(10, k)
      BY TwoAndTen
    <3>4. e[k] \in Nat
      <4>1. k \in 0 .. n
        BY <2>1
      <4>. QED  BY <4>1 DEF IsExact
    <3>. QED  BY <3>1, <3>2, <3>3, <3>4
  <2>3. v[j + 1] = IF x > MaxPort THEN x ELSE 10 * x + d
    <3>1. j + 1 \in 0 .. n /\ j + 1 # 0 /\ j + 1 - 1 = j
      OBVIOUS
    <3>2. \A i \in 0 .. n : v[i] = IF i = 0 THEN 0
               ELSE IF v[i - 1] > MaxPort THEN v[i - 1] ELSE 10 * v[i - 1] + Digit(numeral[i])
      BY DEF IsValue
    <3>3. v[j + 1] = IF v[j] > MaxPort THEN v[j] ELSE 10 * v[j] + Digit(numeral[j + 1])
      BY <3>1, <3>2
    <3>. QED  BY <2>2, <3>3
  <2>4. e[k + 1] = a + p * d
    <3>1. k + 1 - 1 = k
      OBVIOUS
    <3>. QED  BY <2>1, <2>2, <3>1 DEF IsExact
  <2>5. CASE x > MaxPort
    <3>1. e[n] > MaxPort
      BY <1>0, <1>2, <2>2, <2>5
    <3>. QED  BY <1>0, <2>3, <2>5, <3>1
  <2>6. CASE x <= MaxPort
    <3>1. v[j + 1] = 10 * x + d /\ v[j + 1] \in Nat
      BY <1>0, <2>3, <2>6
    <3>2. x * (10 * p) + (a + p * d) = e[n]
      BY <1>2, <2>1, <2>2, <2>4, <2>6
    <3>3. (10 * x + d) * p + a = x * (10 * p) + (a + p * d)
      OBVIOUS
    <3>4. v[j + 1] * Power(10, n - (j + 1)) + e[n - (j + 1)] = e[n]
      BY <2>1, <2>2, <3>1, <3>2, <3>3
    <3>5. e[n] >= v[j + 1]
      <4>1. PICK y \in Nat, z \in Nat : y = v[j + 1] /\ z = e[n] /\ y * p + a = z
        BY <1>0, <2>1, <2>2, <3>1, <3>4
      <4>2. y * p >= y /\ y * p \in Nat
        OBVIOUS
      <4>3. z >= y
        BY <4>1, <4>2
      <4>. QED  BY <4>1, <4>3
    <3>. QED  BY <1>0, <3>1, <3>4, <3>5
  <2>. QED  BY <1>0, <2>5, <2>6
<1>3. n \in K
  <2>. HIDE DEF K
  <2>. QED  BY <1>1, <1>2, Induction
<1>4. n - n = 0 /\ n <= n /\ Power(10, 0) = 1 /\ e[0] = 0
  <2>1. 0 \in Nat /\ n - n = 0 /\ n <= n
    OBVIOUS
  <2>2. Power(10, 0) = 1
    BY <2>1, TwoAndTen
  <2>. QED  BY <2>1, <2>2 DEF IsExact
<1>5. v[n] \in Nat
  BY <1>3, <1>4
<1>. QED  BY <1>0, <1>3, <1>4, <1>5

LEMMA DigitsAreDigits ==
    ASSUME NEW c \in ToSet(Digits)
    PROVE  Digit(c) \in 0 .. 9
<1>. DEFINE I == {i \in 1 .. Len(Digits) : Digits[i] = c}
<1>1. Len(Digits) = 10 /\ DOMAIN Digits = 1 .. 10
  BY DEF Digits
<1>2. I # {} /\ I \subseteq Nat /\ I \subseteq 1 .. 10
  BY <1>1 DEF ToSet
<1>3. Digit(c) = Min(I) - 1
  BY <1>2 DEF Digit, SelectInSeq
<1>. HIDE DEF I
<1>4. Min(I) \in 1 .. 10
  BY <1>2, MinIsIn
<1>. QED  BY <1>3, <1>4

(* The first element that is not in a set, in front of a last one that     *)
(* is not.                                                                 *)
LEMMA NumeralIs ==
    ASSUME NEW S, NEW text \in Seq(S)
    PROVE  \E n \in 0 .. Len(text) :
              /\ Numeral(text) = SubSeq(text, 1, n) /\ Len(Numeral(text)) = n
              /\ \A i \in 1 .. n : text[i] \in ToSet(Digits) /\ Numeral(text)[i] = text[i]
<1>0. PICK none : none = ""
  BY Zenon
<1>1. none \notin ToSet(Digits)
  <2>1. DOMAIN Digits = 1 .. 10
    BY DEF Digits
  <2>2. \A i \in 1 .. 10 : i \in {1, 2, 3, 4, 5, 6, 7, 8, 9, 10}
    OBVIOUS
  <2>3. /\ none # "0" /\ none # "1" /\ none # "2" /\ none # "3" /\ none # "4"
        /\ none # "5" /\ none # "6" /\ none # "7" /\ none # "8" /\ none # "9"
    BY <1>0, Zenon
  <2>4. /\ Digits[1] = "0" /\ Digits[2] = "1" /\ Digits[3] = "2" /\ Digits[4] = "3"
        /\ Digits[5] = "4" /\ Digits[6] = "5" /\ Digits[7] = "6" /\ Digits[8] = "7"
        /\ Digits[9] = "8" /\ Digits[10] = "9"
    BY DEF Digits
  <2>. QED  BY <2>1, <2>2, <2>3, <2>4 DEF ToSet
<1>2. PICK y, n : /\ y = text \o <<none>> /\ n = Len(text) /\ n \in Nat
                  /\ Len(y) = n + 1 /\ y[n + 1] = none /\ \A i \in 1 .. n : y[i] = text[i]
  <2>1. PICK o, y, U : o = <<none>> /\ y = text \o o /\ U = S \cup {none}
    OBVIOUS
  <2>2. text \in Seq(U) /\ o \in Seq(U) /\ Len(o) = 1 /\ o[1] = none
    BY <2>1
  <2>3. PICK n \in Nat : n = Len(text)
    OBVIOUS
  <2>8. /\ Len(text \o o) = Len(text) + Len(o)
        /\ \A i \in 1 .. Len(text) + Len(o) :
              (text \o o)[i] = IF i <= Len(text) THEN text[i] ELSE o[i - Len(text)]
    BY <2>2, ConcatProperties
  <2>4. /\ Len(text \o o) = n + 1
        /\ \A i \in 1 .. n + 1 : (text \o o)[i] = IF i <= n THEN text[i] ELSE o[i - n]
    BY <2>2, <2>3, <2>8
  <2>5. n + 1 \in 1 .. n + 1 /\ ~(n + 1 <= n) /\ n + 1 - n = 1
    OBVIOUS
  <2>6. y[n + 1] = none
    BY <2>1, <2>2, <2>4, <2>5
  <2>7. \A i \in 1 .. n : y[i] = text[i]
    BY <2>1, <2>4
  <2>. QED  BY <2>1, <2>3, <2>4, <2>6, <2>7
<1>. DEFINE I == {i \in 1 .. Len(y) : y[i] \notin ToSet(Digits)}
<1>3. n + 1 \in I /\ I # {} /\ I \subseteq Nat
  BY <1>1, <1>2
<1>4. Numeral(text) = SubSeq(text, 1, Min(I) - 1)
  BY <1>0, <1>2, <1>3, Zenon DEF Numeral, SelectInSeq
<1>5. Min(I) \in I /\ \A i \in I : Min(I) <= i
  <2>. HIDE DEF I
  <2>. QED  BY <1>3, MinIsIn
<1>6. PICK k : k = Min(I) - 1 /\ k \in 0 .. n /\ Min(I) = k + 1
  <2>1. Min(I) \in 1 .. n + 1
    BY <1>2, <1>5
  <2>. HIDE DEF I
  <2>2. PICK h : h = Min(I)
    OBVIOUS
  <2>3. h \in 1 .. n + 1 /\ h - 1 \in 0 .. n /\ h = (h - 1) + 1
    BY <1>2, <2>1, <2>2
  <2>. QED  BY <2>2, <2>3
<1>7. \A i \in 1 .. k : text[i] \in ToSet(Digits)
  <2>. SUFFICES ASSUME NEW i \in 1 .. k, text[i] \notin ToSet(Digits) PROVE FALSE
    OBVIOUS
  <2>1. i \in I
    <3>. HIDE DEF I
    <3>0. k \in 0 .. n /\ n \in Nat /\ Len(y) = n + 1
      BY <1>2, <1>6
    <3>1. i \in 1 .. n /\ i \in 1 .. Len(y)
      BY <3>0
    <3>2. y[i] \notin ToSet(Digits)
      BY <1>2, <3>1
    <3>. USE DEF I
    <3>. QED  BY <3>1, <3>2
  <2>. HIDE DEF I
  <2>2. k + 1 <= i
    BY <1>5, <1>6, <2>1
  <2>. QED  BY <1>6, <2>2
<1>. HIDE DEF I
<1>8. /\ Len(SubSeq(text, 1, k)) = k
      /\ \A i \in 1 .. k : SubSeq(text, 1, k)[i] = text[i]
  <2>1. \A i \in 1 .. k : text[i] \in S
    BY <1>2, <1>6
  <2>2. k \in Int /\ 1 \in Int
    BY <1>6
  <2>3. /\ Len(SubSeq(text, 1, k)) = IF 1 <= k THEN k - 1 + 1 ELSE 0
        /\ \A i \in 1 .. k - 1 + 1 : SubSeq(text, 1, k)[i] = text[1 + i - 1]
    BY <2>1, <2>2, SubSeqProperties
  <2>4. k - 1 + 1 = k /\ \A i \in 1 .. k : 1 + i - 1 = i
    BY <2>2
  <2>5. Len(SubSeq(text, 1, k)) = k
    BY <1>6, <2>3, <2>4
  <2>. QED  BY <2>3, <2>4, <2>5
<1>. QED  BY <1>2, <1>4, <1>6, <1>7, <1>8

(* The loop of consume_number.                                             *)
IsWordSum(r, m, text, n) ==
    r = [i \in 0 .. n |-> IF i = 0 THEN 0
                          ELSE (r[i - 1] + m[i - 1] * Digit(text[n - i + 1])) % WordSize]

LEMMA MultiplierIs ==
    ASSUME NEW n \in Nat
    PROVE  \E m : IsMultiplier(m, n)
<1>0. WordSize \in Nat \ {0}
  BY WordFacts
<1>. DEFINE G == [i \in 1 .. n |-> [x \in Nat |-> (x * 10) % WordSize]]
<1>1. G \in [1 .. n -> [Nat -> Nat]]
  <2>1. ASSUME NEW x \in Nat PROVE (x * 10) % WordSize \in Nat
    <3>1. x * 10 \in Nat
      OBVIOUS
    <3>. QED  BY <1>0, <3>1
  <2>. QED  BY <2>1
<1>2. PICK f : f \in [0 .. n -> Nat] /\ f[0] = 1 /\ \A i \in 1 .. n : f[i] = G[i][f[i - 1]]
  <2>. HIDE DEF G
  <2>1. PICK V, base : V = Nat /\ base = 1 /\ base \in V /\ G \in [1 .. n -> [V -> V]]
    BY <1>1
  <2>2. \E f : IsRecursive(f, V, base, n, G)
    BY <2>1, Recursion
  <2>. QED  BY <2>1, <2>2 DEF IsRecursive
<1>3. ASSUME NEW i \in 0 .. n PROVE f[i] = IF i = 0 THEN 1 ELSE (f[i - 1] * 10) % WordSize
  <2>1. CASE i # 0
    <3>1. i \in 1 .. n /\ f[i - 1] \in Nat
      BY <1>2, <2>1
    <3>. QED  BY <1>2, <2>1, <3>1
  <2>. QED  BY <1>2, <2>1
<1>. HIDE DEF G
<1>4. f = [i \in 0 .. n |-> f[i]]
  BY <1>2
<1>. QED  BY <1>3, <1>4 DEF IsMultiplier

LEMMA WordSumIs ==
    ASSUME NEW n \in Nat, NEW m, \A i \in 0 .. n : m[i] \in Nat,
           NEW text, NEW D \in [1 .. n -> 0 .. 9], \A i \in 1 .. n : D[i] = Digit(text[n - i + 1])
    PROVE  \E r : IsWordSum(r, m, text, n)
<1>0. WordSize \in Nat \ {0}
  BY WordFacts
<1>. DEFINE G == [i \in 1 .. n |-> [x \in Nat |-> (x + m[i - 1] * D[i]) % WordSize]]
<1>1. G \in [1 .. n -> [Nat -> Nat]]
  <2>1. ASSUME NEW i \in 1 .. n, NEW x \in Nat PROVE (x + m[i - 1] * D[i]) % WordSize \in Nat
    <3>. HIDE DEF G
    <3>1. PICK p \in Nat, d \in Nat : p = m[i - 1] /\ d = D[i]
      <4>1. i - 1 \in 0 .. n
        OBVIOUS
      <4>2. m[i - 1] \in Nat
        BY <4>1
      <4>3. D[i] \in Nat
        OBVIOUS
      <4>. QED  BY <4>2, <4>3
    <3>2. x + p * d \in Nat
      OBVIOUS
    <3>. QED  BY <1>0, <3>1, <3>2
  <2>. QED  BY <2>1
<1>2. PICK f : f \in [0 .. n -> Nat] /\ f[0] = 0 /\ \A i \in 1 .. n : f[i] = G[i][f[i - 1]]
  <2>. HIDE DEF G
  <2>1. PICK V, base : V = Nat /\ base = 0 /\ base \in V /\ G \in [1 .. n -> [V -> V]]
    BY <1>1
  <2>2. \E f : IsRecursive(f, V, base, n, G)
    BY <2>1, Recursion
  <2>. QED  BY <2>1, <2>2 DEF IsRecursive
<1>3. ASSUME NEW i \in 0 .. n
      PROVE  f[i] = IF i = 0 THEN 0
                    ELSE (f[i - 1] + m[i - 1] * Digit(text[n - i + 1])) % WordSize
  <2>1. CASE i # 0
    <3>1. i \in 1 .. n /\ f[i - 1] \in Nat
      BY <1>2, <2>1
    <3>2. G[i][f[i - 1]] = (f[i - 1] + m[i - 1] * D[i]) % WordSize
      BY <3>1
    <3>. HIDE DEF G
    <3>. QED  BY <1>2, <2>1, <3>1, <3>2
  <2>. QED  BY <1>2, <2>1
<1>. HIDE DEF G
<1>4. f = [i \in 0 .. n |-> f[i]]
  BY <1>2
<1>. QED  BY <1>3, <1>4 DEF IsWordSum

LEMMA SumsAreNumbers ==
    ASSUME NEW n \in Nat, n + 2 < WordBits, NEW D \in [1 .. n -> 0 .. 9],
           NEW m, IsMultiplier(m, n), NEW r, IsSum(r, m, D, n)
    PROVE  \A j \in 1 .. n : r[j] \in Nat
<1>0. WordSize \in Nat \ {0}
  BY WordFacts
<1>. DEFINE K == {j \in Nat : j <= n => r[j] \in Nat}
<1>1. 0 \in K
  BY DEF IsSum
<1>2. ASSUME NEW j \in Nat, j \in K PROVE j + 1 \in K
  <2>. SUFFICES ASSUME j + 1 <= n PROVE r[j + 1] \in Nat
    OBVIOUS
  <2>1. j + 1 \in 0 .. n /\ j + 1 # 0 /\ j + 1 - 1 = j /\ j \in 0 .. n
    OBVIOUS
  <2>2. PICK x \in Nat, p \in Nat, d \in Nat : x = r[j] /\ p = m[j] /\ d = D[j + 1]
    <3>1. m[j] \in Nat
      BY <2>1, Multipliers
    <3>2. r[j] \in Nat
      BY <1>2
    <3>. QED  BY <3>1, <3>2
  <2>3. r[j + 1] = (x + p * d) % WordSize
    BY <2>1, <2>2 DEF IsSum
  <2>4. x + p * d \in Nat
    OBVIOUS
  <2>. QED  BY <1>0, <2>3, <2>4
<1>3. \A j \in Nat : j \in K
  <2>. HIDE DEF K
  <2>. QED  BY <1>1, <1>2, Induction
<1>. QED  BY <1>3

Multiplier(n)    == CHOOSE q : IsMultiplier(q, n)

WordSum(text, n) == CHOOSE q : IsWordSum(q, Multiplier(n), text, n)

LEMMA NumberIs ==
    ASSUME NEW text, NEW limit
    PROVE  ConsumeNumber(text, limit) =
              IF Len(Numeral(text)) = 0
                 \/ \E i \in 1 .. Len(Numeral(text)) : WordSum(text, Len(Numeral(text)))[i] > limit
              THEN <<>> ELSE <<WordSum(text, Len(Numeral(text)))[Len(Numeral(text))]>>
<1>. QED  BY Zenon DEF ConsumeNumber, IsMultiplier, IsWordSum, WordSum, Multiplier

(* consume_number, for every numeral that is short: it reads the number if *)
(* that is a port and nothing otherwise, though it computes in words that  *)
(* can overflow and looks at the limit digit by digit.                     *)
THEOREM NumbersAreRead ==
    ASSUME NEW S, NEW text \in Seq(S), IsShort(Numeral(text))
    PROVE  ConsumeNumber(text, MaxPort) =
              IF Numeral(text) = <<>> \/ Value(Numeral(text)) > MaxPort THEN <<>>
              ELSE <<Value(Numeral(text))>>
<1>1. PICK n \in 0 .. Len(text) :
         /\ Len(Numeral(text)) = n
         /\ \A i \in 1 .. n : text[i] \in ToSet(Digits) /\ Numeral(text)[i] = text[i]
  BY NumeralIs
<1>2. n \in Nat /\ n + 2 < WordBits /\ (Numeral(text) = <<>> <=> n = 0)
  BY <1>1 DEF IsShort
<1>3. PICK D \in [1 .. n -> 0 .. 9] : \A i \in 1 .. n : D[i] = Digit(text[n - i + 1])
  <2>1. ASSUME NEW i \in 1 .. n PROVE Digit(text[n - i + 1]) \in 0 .. 9
    <3>1. n - i + 1 \in 1 .. n
      BY <1>2
    <3>. QED  BY <1>1, <3>1, DigitsAreDigits
  <2>2. [i \in 1 .. n |-> Digit(text[n - i + 1])] \in [1 .. n -> 0 .. 9]
    BY <2>1
  <2>. QED  BY <2>2
<1>4. PICK m : m = Multiplier(n)
  OBVIOUS
<1>5. PICK r : r = WordSum(text, n)
  OBVIOUS
<1>6. ConsumeNumber(text, MaxPort) =
         IF n = 0 \/ \E i \in 1 .. n : r[i] > MaxPort THEN <<>> ELSE <<r[n]>>
  BY <1>1, <1>5, NumberIs
<1>7. IsMultiplier(m, n)
  <2>1. \E q : IsMultiplier(q, n)
    BY <1>2, MultiplierIs
  <2>. QED  BY <1>4, <2>1, Zenon DEF Multiplier
<1>8. IsWordSum(r, m, text, n)
  <2>1. \A i \in 0 .. n : m[i] \in Nat
    BY <1>2, <1>7, Multipliers
  <2>2. \E q : IsWordSum(q, m, text, n)
    BY <1>2, <1>3, <2>1, WordSumIs
  <2>. QED  BY <1>4, <1>5, <2>2, Zenon DEF WordSum
<1>9. IsSum(r, m, D, n)
  <2>1. ASSUME NEW i \in 0 .. n
        PROVE  (IF i = 0 THEN 0 ELSE (r[i - 1] + m[i - 1] * Digit(text[n - i + 1])) % WordSize)
                  = IF i = 0 THEN 0 ELSE (r[i - 1] + m[i - 1] * D[i]) % WordSize
    <3>1. i # 0 => i \in 1 .. n
      OBVIOUS
    <3>. QED  BY <1>3, <3>1
  <2>. QED  BY <1>8, <2>1 DEF IsSum, IsWordSum
<1>10. PICK e : IsExact(e, D, n)
  BY <1>2, ExactSum
<1>11. PICK numeral : numeral = Numeral(text) /\ Len(numeral) = n
                      /\ \A i \in 1 .. n : numeral[i] = text[i] /\ Digit(numeral[i]) \in 0 .. 9
  BY <1>1, DigitsAreDigits
<1>12. PICK v : IsValue(v, numeral, n) /\ Value(numeral) = v[n]
  BY <1>2, <1>11, ValueIs
<1>13. v[n] \in Nat /\ e[n] \in Nat /\ IF v[n] <= MaxPort THEN v[n] = e[n] ELSE e[n] > MaxPort
  <2>1. \A i \in 1 .. n : D[i] = Digit(numeral[n - i + 1])
    <3>. SUFFICES ASSUME NEW i \in 1 .. n PROVE D[i] = Digit(numeral[n - i + 1])
      OBVIOUS
    <3>1. n - i + 1 \in 1 .. n
      BY <1>2
    <3>. QED  BY <1>3, <1>11, <3>1
  <2>. QED  BY <1>2, <1>10, <1>12, <2>1, FromTheFirst
<1>14. IF \A j \in 1 .. n : r[j] <= MaxPort THEN r[n] = e[n] /\ e[n] <= MaxPort
       ELSE (\E j \in 1 .. n : r[j] > MaxPort) /\ e[n] > MaxPort
  BY <1>2, <1>7, <1>9, <1>10, Sums
<1>15. MaxPort \in Nat /\ \A j \in 1 .. n : r[j] \in Nat
  <2>1. WordSize \in Nat \ {0} /\ MaxPort \in Nat
    BY WordFacts
  <2>. QED  BY <2>1, <1>2, <1>3, <1>7, <1>9, SumsAreNumbers
<1>16. CASE \A j \in 1 .. n : r[j] <= MaxPort
  <2>1. ~\E j \in 1 .. n : r[j] > MaxPort
    BY <1>15, <1>16
  <2>2. v[n] = r[n] /\ ~(v[n] > MaxPort)
    BY <1>13, <1>14, <1>15, <1>16
  <2>. QED  BY <1>2, <1>6, <1>11, <1>12, <2>1, <2>2
<1>17. CASE ~\A j \in 1 .. n : r[j] <= MaxPort
  <2>1. \E j \in 1 .. n : r[j] > MaxPort
    BY <1>14, <1>17
  <2>2. v[n] > MaxPort
    BY <1>13, <1>14, <1>15, <1>17
  <2>. QED  BY <1>6, <1>11, <1>12, <2>1, <2>2
<1>. QED  BY <1>16, <1>17

-----------------------------------------------------------------------------
(* A token is found where it is read first.                                *)

(* The first symbol of a token is not in between: the token is not found   *)
(* there.                                                                  *)
LEMMA NotBefore ==
    ASSUME NEW S, NEW text \in Seq(S), NEW token \in Seq(S), token # <<>>,
           NEW i \in Nat, i + Len(token) <= Len(text), text[i + 1] # token[1]
    PROVE  SubSeq(text, i + 1, i + Len(token)) # token
<1>1. PICK m \in Nat, n \in Nat : m = Len(token) /\ n = Len(text) /\ m # 0
  BY EmptySeq
<1>2. PICK a \in Int, b \in Int : a = i + 1 /\ b = i + m
  BY <1>1
<1>3. \A j \in a .. b : text[j] \in S
  BY <1>1, <1>2
<1>4. PICK s : s = SubSeq(text, a, b)
  OBVIOUS
<1>5. \A j \in 1 .. b - a + 1 : s[j] = text[a + j - 1]
  BY <1>3, <1>4, SubSeqProperties
<1>6. 1 \in 1 .. b - a + 1 /\ a + 1 - 1 = i + 1
  BY <1>1, <1>2
<1>7. s[1] # token[1]
  BY <1>5, <1>6
<1>. QED  BY <1>1, <1>2, <1>4, <1>7

IsFirst(S, text, token, from, k) ==
    /\ text \in Seq(S) /\ token \in Seq(S) /\ token # <<>>
    /\ from \in Nat /\ k \in Nat /\ from <= k /\ ReadsAt(text, k, token)
    /\ \A i \in from .. k - 1 : text[i + 1] # token[1]

LEMMA FindIs ==
    ASSUME NEW S, NEW text, NEW token, NEW from, NEW k, IsFirst(S, text, token, from, k)
    PROVE  Find(text, from, token) = k
<1>0. /\ text \in Seq(S) /\ token \in Seq(S) /\ token # <<>>
      /\ from \in Nat /\ k \in Nat /\ from <= k /\ ReadsAt(text, k, token)
      /\ \A i \in from .. k - 1 : text[i + 1] # token[1]
  BY DEF IsFirst
<1>1. PICK m \in Nat, n \in Nat : m = Len(token) /\ n = Len(text) /\ m # 0
  BY <1>0, EmptySeq
<1>. DEFINE I == {i \in from .. Len(text) - Len(token) :
                     SubSeq(text, i + 1, i + Len(token)) = token}
<1>2. k \in I
  <2>1. SubSeq(text, k + 1, k + Len(token)) = token
    BY <1>0, WhatIsRead
  <2>2. k + m <= n
    BY <1>0, <1>1 DEF ReadsAt
  <2>3. k \in from .. Len(text) - Len(token)
    BY <1>0, <1>1, <2>2
  <2>. QED  BY <2>1, <2>3
<1>3. I \subseteq Nat /\ I # {}
  <2>1. \A i \in from .. n - m : i \in Nat
    BY <1>0
  <2>2. I \subseteq Nat
    BY <1>1, <2>1
  <2>3. I # {}
    <3>. HIDE DEF I
    <3>. QED  BY <1>2
  <2>. QED  BY <2>2, <2>3
<1>4. ASSUME NEW i \in I PROVE k <= i
  <2>1. i \in Nat /\ from <= i /\ i + m <= n /\ SubSeq(text, i + 1, i + Len(token)) = token
    BY <1>0, <1>1
  <2>. HIDE DEF I
  <2>2. text[i + 1] = token[1]
    BY <1>0, <1>1, <2>1, NotBefore
  <2>3. ~(i \in from .. k - 1)
    BY <1>0, <2>2
  <2>. QED  BY <1>0, <2>1, <2>3
<1>5. Find(text, from, token) = Min(I)
  BY <1>3 DEF Find
<1>. HIDE DEF I
<1>6. Min(I) \in I /\ \A i \in I : Min(I) <= i
  BY <1>3, MinIsIn
<1>7. PICK h \in Nat : h = Min(I)
  BY <1>3, <1>6
<1>8. h <= k /\ k <= h
  BY <1>2, <1>4, <1>6, <1>7
<1>. QED  BY <1>0, <1>5, <1>7, <1>8

LEMMA FindsNothing ==
    ASSUME NEW S, NEW text \in Seq(S), NEW token \in Seq(S), token # <<>>, NEW from \in Nat,
           \A i \in from .. Len(text) - 1 : text[i + 1] # token[1]
    PROVE  Find(text, from, token) = NotFound
<1>1. PICK m \in Nat, n \in Nat : m = Len(token) /\ n = Len(text) /\ m # 0
  BY EmptySeq
<1>. DEFINE I == {i \in from .. Len(text) - Len(token) :
                     SubSeq(text, i + 1, i + Len(token)) = token}
<1>2. ASSUME NEW i \in I PROVE FALSE
  <2>1. i \in Nat /\ from <= i /\ i + m <= n /\ SubSeq(text, i + 1, i + Len(token)) = token
    BY <1>1
  <2>. HIDE DEF I
  <2>2. i \in from .. Len(text) - 1
    BY <1>1, <2>1
  <2>3. text[i + 1] # token[1]
    BY <2>2
  <2>. QED  BY <1>1, <2>1, <2>3, NotBefore
<1>3. I = {}
  BY <1>2
<1>. QED  BY <1>3 DEF Find

-----------------------------------------------------------------------------
(* What parse finds in a URL that operator<< has printed.                  *)

LEMMA Delimiters ==
    /\ ":" # "/" /\ ":" # "@" /\ ":" # "?" /\ ":" # "#" /\ "/" # "@" /\ "/" # "?" /\ "/" # "#"
    /\ "@" # "?" /\ "@" # "#" /\ "?" # "#"
    /\ "@" # ":" /\ "?" # ":" /\ "#" # ":" /\ "?" # "@" /\ "#" # "@" /\ "#" # "?"
<1>. QED  BY Zenon

(* Where the query and the fragment begin in a text that goes on with the  *)
(* path at s, the query at q and the fragment at h.                        *)
TailAt(t, s, c, q, h) ==
    /\ s \in Nat /\ q \in Nat /\ h \in Nat
    /\ ReadsAt(t, s, c["path"]) /\ q = s + Len(c["path"])
    /\ IF c["query"] = <<>> THEN h = q
       ELSE ReadsAt(t, q, <<"?">>) /\ ReadsAt(t, q + 1, c["query"]) /\ h = q + 1 + Len(c["query"])
    /\ IF c["fragment"] = <<>> THEN Len(t) = h
       ELSE ReadsAt(t, h, <<"#">>) /\ ReadsAt(t, h + 1, c["fragment"]) /\ Len(t) = h + 1 + Len(c["fragment"])

LEMMA NoneOf ==
    ASSUME NEW S, NEW x \in Seq(S), NEW D, HasNone(x, D), NEW i \in 1 .. Len(x)
    PROVE  x[i] \notin D
<1>. QED  BY DEF HasNone, ToSet

(* What is read has none of the symbols.                                   *)
LEMMA NoneThere ==
    ASSUME NEW S, NEW x \in Seq(S), NEW D, HasNone(x, D), NEW t, NEW o, ReadsAt(t, o, x),
           NEW i \in o .. o + Len(x) - 1
    PROVE  t[i + 1] \notin D
<1>1. PICK n \in Nat : n = Len(x)
  OBVIOUS
<1>2. o \in Nat /\ \A k \in 1 .. n : t[o + k] = x[k]
  BY <1>1 DEF ReadsAt
<1>3. PICK k : k = i + 1 - o /\ k \in 1 .. n /\ o + k = i + 1
  <2>1. i \in o .. o + n - 1 /\ o \in Nat
    BY <1>1, <1>2
  <2>2. i + 1 - o \in 1 .. n /\ o + (i + 1 - o) = i + 1
    BY <2>1
  <2>. QED  BY <2>2
<1>4. t[i + 1] = x[k]
  BY <1>2, <1>3
<1>5. x[k] \notin D
  BY <1>1, <1>3, NoneOf
<1>. QED  BY <1>4, <1>5

LEMMA SymbolThere ==
    ASSUME NEW t, NEW o, NEW d, ReadsAt(t, o, <<d>>)
    PROVE  o \in Nat /\ o + 1 <= Len(t) /\ t[o + 1] = d
<1>1. Len(<<d>>) = 1 /\ <<d>>[1] = d /\ 1 \in 1 .. 1
  OBVIOUS
<1>. QED  BY <1>1 DEF ReadsAt

LEMMA PlainTail ==
    ASSUME NEW S, {":", "/", "@", "?", "#"} \subseteq S, NEW t \in Seq(S), NEW c \in [Parts -> Seq(S)],
           HasPlainTail(c), NEW s, NEW q, NEW h, TailAt(t, s, c, q, h),
           NEW query, query = Find(t, s, <<"?">>),
           NEW hash, hash = Find(t, Max({s, query + 1}), <<"#">>)
    PROVE  /\ query = IF c["query"] = <<>> THEN NotFound ELSE q
           /\ hash = IF c["fragment"] = <<>> THEN NotFound ELSE h
<1>1. PICK cp \in Seq(S), cq \in Seq(S), cf \in Seq(S) :
         cp = c["path"] /\ cq = c["query"] /\ cf = c["fragment"]
  BY DEF Parts
<1>2. PICK lp \in Nat, lq \in Nat, lf \in Nat, n \in Nat :
         lp = Len(cp) /\ lq = Len(cq) /\ lf = Len(cf) /\ n = Len(t)
  OBVIOUS
<1>3. PICK mark, sharp : /\ mark = <<"?">> /\ sharp = <<"#">> /\ mark \in Seq(S) /\ sharp \in Seq(S)
                         /\ mark # <<>> /\ sharp # <<>> /\ mark[1] = "?" /\ sharp[1] = "#"
                         /\ Len(mark) = 1 /\ Len(sharp) = 1
  <2>1. "?" \in S /\ "#" \in S
    OBVIOUS
  <2>2. PICK mark : mark = <<"?">>
    OBVIOUS
  <2>3. PICK sharp : sharp = <<"#">>
    OBVIOUS
  <2>4. mark \in Seq(S) /\ mark # <<>> /\ mark[1] = "?" /\ Len(mark) = 1
    BY <2>1, <2>2, OneElement
  <2>5. sharp \in Seq(S) /\ sharp # <<>> /\ sharp[1] = "#" /\ Len(sharp) = 1
    BY <2>1, <2>3, OneElement
  <2>. QED  BY <2>2, <2>3, <2>4, <2>5
<1>4. /\ HasNone(cp, {"?", "#"}) /\ HasNone(cq, {"#"})
      /\ cq = <<>> => HasNone(cf, {"?"})
  BY <1>1 DEF HasPlainTail
<1>5. /\ s \in Nat /\ q \in Nat /\ h \in Nat /\ ReadsAt(t, s, cp) /\ q = s + lp
      /\ IF cq = <<>> THEN h = q ELSE ReadsAt(t, q, mark) /\ ReadsAt(t, q + 1, cq) /\ h = q + 1 + lq
      /\ IF cf = <<>> THEN n = h ELSE ReadsAt(t, h, sharp) /\ ReadsAt(t, h + 1, cf) /\ n = h + 1 + lf
  BY <1>1, <1>2, <1>3 DEF TailAt
<1>6. \A i \in s .. q - 1 : t[i + 1] # "?" /\ t[i + 1] # "#"
  <2>. SUFFICES ASSUME NEW i \in s .. q - 1 PROVE t[i + 1] \notin {"?", "#"}
    OBVIOUS
  <2>1. i \in s .. s + Len(cp) - 1
    BY <1>2, <1>5
  <2>. QED  BY <1>4, <1>5, <2>1, NoneThere
<1>7. cq # <<>> => \A i \in q .. h - 1 : t[i + 1] # "#"
  <2>. SUFFICES ASSUME cq # <<>>, NEW i \in q .. h - 1 PROVE t[i + 1] # "#"
    OBVIOUS
  <2>1. CASE i = q
    <3>1. t[i + 1] = "?"
      BY <1>3, <1>5, <2>1, SymbolThere
    <3>. QED  BY <3>1, Delimiters
  <2>2. CASE i # q
    <3>1. i \in q + 1 .. q + 1 + Len(cq) - 1
      BY <1>2, <1>5, <2>2
    <3>2. t[i + 1] \notin {"#"}
      BY <1>4, <1>5, <3>1, NoneThere
    <3>. QED  BY <3>2
  <2>. QED  BY <2>1, <2>2
<1>8. cf # <<>> /\ cq = <<>> => \A i \in h .. n - 1 : t[i + 1] # "?"
  <2>. SUFFICES ASSUME cf # <<>>, cq = <<>>, NEW i \in h .. n - 1 PROVE t[i + 1] # "?"
    OBVIOUS
  <2>1. CASE i = h
    <3>1. t[i + 1] = "#"
      BY <1>3, <1>5, <2>1, SymbolThere
    <3>. QED  BY <3>1, Delimiters
  <2>2. CASE i # h
    <3>1. i \in h + 1 .. h + 1 + Len(cf) - 1
      BY <1>2, <1>5, <2>2
    <3>2. t[i + 1] \notin {"?"}
      BY <1>4, <1>5, <3>1, NoneThere
    <3>. QED  BY <3>2
  <2>. QED  BY <2>1, <2>2
<1>9. query = IF cq = <<>> THEN NotFound ELSE q
  <2>1. CASE cq # <<>>
    <3>1. s <= q /\ ReadsAt(t, q, mark) /\ \A i \in s .. q - 1 : t[i + 1] # mark[1]
      BY <1>3, <1>5, <1>6, <2>1
    <3>9. IsFirst(S, t, mark, s, q)
      BY <1>3, <1>5, <2>1, <3>1 DEF IsFirst
    <3>. QED  BY <1>3, <2>1, <3>9, FindIs
  <2>2. CASE cq = <<>>
    <3>1. \A i \in s .. Len(t) - 1 : t[i + 1] # mark[1]
      <4>. SUFFICES ASSUME NEW i \in s .. n - 1 PROVE t[i + 1] # "?"
        BY <1>2, <1>3
      <4>1. i \in s .. q - 1 \/ (i \in h .. n - 1 /\ cf # <<>>)
        BY <1>5, <2>2
      <4>. QED  BY <1>6, <1>8, <2>2, <4>1
    <3>. QED  BY <1>3, <1>5, <2>2, <3>1, FindsNothing
  <2>. QED  BY <2>1, <2>2
<1>10. PICK from \in Nat : from = Max({s, query + 1}) /\ from = IF cq = <<>> THEN s ELSE q + 1
  <2>1. query \in Int /\ query + 1 = IF cq = <<>> THEN 0 ELSE q + 1
    BY <1>5, <1>9 DEF NotFound
  <2>2. Max({s, query + 1}) = IF s >= query + 1 THEN s ELSE query + 1
    BY <1>5, <2>1, MaxOfTwo
  <2>. QED  BY <1>5, <2>1, <2>2
<1>11. \A i \in from .. h - 1 : t[i + 1] # sharp[1]
  <2>. SUFFICES ASSUME NEW i \in from .. h - 1 PROVE t[i + 1] # "#"
    BY <1>3
  <2>1. CASE cq = <<>>
    BY <1>5, <1>6, <1>10, <2>1
  <2>2. CASE cq # <<>>
    BY <1>5, <1>7, <1>10, <2>2
  <2>. QED  BY <2>1, <2>2
<1>12. hash = IF cf = <<>> THEN NotFound ELSE h
  <2>0. hash = Find(t, from, sharp)
    BY <1>3, <1>10
  <2>1. CASE cf # <<>>
    <3>1. from <= h /\ ReadsAt(t, h, sharp)
      BY <1>5, <1>10, <2>1
    <3>9. IsFirst(S, t, sharp, from, h)
      BY <1>3, <1>5, <1>11, <2>0, <2>1, <3>1 DEF IsFirst
    <3>. QED  BY <2>0, <2>1, <3>9, FindIs
  <2>2. CASE cf = <<>>
    <3>1. \A i \in from .. Len(t) - 1 : t[i + 1] # sharp[1]
      BY <1>2, <1>5, <1>11, <2>2
    <3>. QED  BY <1>3, <2>0, <2>2, <3>1, FindsNothing
  <2>. QED  BY <2>1, <2>2
<1>. QED  BY <1>1, <1>9, <1>12

(* What operator<< prints before and after the path.                       *)
With(before, text, after) == IF text = <<>> THEN <<>> ELSE before \o text \o after

BeforePath(c) ==
    With(<<>>, c["scheme"], <<":", "/", "/">>) \o With(<<>>, c["userinfo"], <<"@">>)
        \o c["host"] \o With(<<":">>, c["port"], <<>>)

AfterPath(c) == With(<<"?">>, c["query"], <<>>) \o With(<<"#">>, c["fragment"], <<>>)

Delims == {":", "/", "@", "?", "#"}

LEMMA DelimTexts ==
    ASSUME NEW S, Delims \subseteq S
    PROVE  /\ <<>> \in Seq(S) /\ <<":", "/", "/">> \in Seq(S) /\ <<"@">> \in Seq(S)
           /\ <<":">> \in Seq(S) /\ <<"?">> \in Seq(S) /\ <<"#">> \in Seq(S) /\ <<"/">> \in Seq(S)
           /\ Len(<<":", "/", "/">>) = 3 /\ <<":", "/", "/">>[1] = ":"
<1>1. ":" \in S /\ "/" \in S /\ "@" \in S /\ "?" \in S /\ "#" \in S
  BY DEF Delims
<1>. QED  BY <1>1

LEMMA WithIsIn ==
    ASSUME NEW S, NEW before \in Seq(S), NEW text \in Seq(S), NEW after \in Seq(S)
    PROVE  With(before, text, after) \in Seq(S)
<1>1. before \o text \o after \in Seq(S)
  BY ConcatProperties
<1>. QED  BY <1>1, EmptySeq DEF With

LEMMA PrintedIs ==
    ASSUME NEW S, Delims \subseteq S, NEW c \in [Parts -> Seq(S)]
    PROVE  /\ BeforePath(c) \in Seq(S) /\ AfterPath(c) \in Seq(S)
           /\ Printed(c) = BeforePath(c) \o c["path"] \o AfterPath(c)
           /\ \A p \in Parts : c[p] \in Seq(S)
<1>1. /\ c["scheme"] \in Seq(S) /\ c["userinfo"] \in Seq(S) /\ c["host"] \in Seq(S)
      /\ c["port"] \in Seq(S) /\ c["path"] \in Seq(S) /\ c["query"] \in Seq(S)
      /\ c["fragment"] \in Seq(S) /\ \A p \in Parts : c[p] \in Seq(S)
  BY DEF Parts
<1>2. PICK p1, p2, p3, p4, p5 :
         /\ p1 = With(<<>>, c["scheme"], <<":", "/", "/">>)
         /\ p2 = With(<<>>, c["userinfo"], <<"@">>)
         /\ p3 = With(<<":">>, c["port"], <<>>)
         /\ p4 = With(<<"?">>, c["query"], <<>>)
         /\ p5 = With(<<"#">>, c["fragment"], <<>>)
  OBVIOUS
<1>3. p1 \in Seq(S) /\ p2 \in Seq(S) /\ p3 \in Seq(S) /\ p4 \in Seq(S) /\ p5 \in Seq(S)
  BY <1>1, <1>2, WithIsIn, DelimTexts
<1>4. Printed(c) = p1 \o p2 \o c["host"] \o p3 \o c["path"] \o p4 \o p5
  BY <1>2 DEF Printed, With
<1>5. BeforePath(c) = p1 \o p2 \o c["host"] \o p3 /\ AfterPath(c) = p4 \o p5
  BY <1>2 DEF BeforePath, AfterPath
<1>6. PICK x : x = p1 \o p2 \o c["host"] \o p3 \o c["path"]
  OBVIOUS
<1>7. BeforePath(c) \in Seq(S) /\ AfterPath(c) \in Seq(S) /\ x \in Seq(S)
  BY <1>1, <1>3, <1>5, <1>6, ConcatProperties
<1>8. x \o p4 \o p5 = x \o (p4 \o p5)
  <2>1. x \in Seq(S) /\ p4 \in Seq(S) /\ p5 \in Seq(S)
    BY <1>3, <1>7
  <2>. QED  BY <2>1
<1>. QED  BY <1>1, <1>4, <1>5, <1>6, <1>7, <1>8

(* The offsets of what is before the path.                                 *)
FrontAt(t, c, from, host, colon, slash) ==
    /\ from \in Nat /\ host \in Nat /\ colon \in Nat /\ slash \in Nat
    /\ ReadsAt(t, 0, c["scheme"]) /\ ReadsAt(t, Len(c["scheme"]), <<":", "/", "/">>)
    /\ from = Len(c["scheme"]) + 3
    /\ IF c["userinfo"] = <<>> THEN host = from
       ELSE /\ ReadsAt(t, from, c["userinfo"]) /\ ReadsAt(t, from + Len(c["userinfo"]), <<"@">>)
            /\ host = from + Len(c["userinfo"]) + 1
    /\ ReadsAt(t, host, c["host"]) /\ colon = host + Len(c["host"])
    /\ ReadsAt(t, colon, <<":">>) /\ ReadsAt(t, colon + 1, c["port"])
    /\ slash = colon + 1 + Len(c["port"])

(* One text after another, of which the one in the middle may be missing.  *)
IsWith(S, w, before, x, after) ==
    before \in Seq(S) /\ x \in Seq(S) /\ after \in Seq(S) /\ w = With(before, x, after)

LEMMA WithIsRead ==
    ASSUME NEW S, NEW before, NEW x, NEW after, NEW w, IsWith(S, w, before, x, after),
           NEW t, Len(t) \in Nat, NEW o, ReadsAt(t, o, w)
    PROVE  /\ o \in Nat
           /\ x = <<>> => Len(w) = 0
           /\ x # <<>> => /\ ReadsAt(t, o, before)
                          /\ ReadsAt(t, o + Len(before), x)
                          /\ ReadsAt(t, o + Len(before) + Len(x), after)
                          /\ Len(w) = Len(before) + Len(x) + Len(after)
<1>0. before \in Seq(S) /\ x \in Seq(S) /\ after \in Seq(S) /\ w = With(before, x, after)
  BY DEF IsWith
<1>1. CASE x = <<>>
  BY <1>0, <1>1, EmptySeq DEF With, ReadsAt
<1>2. CASE x # <<>>
  <2>1. PICK y : y = before \o x /\ w = y \o after
    BY <1>0, <1>2 DEF With
  <2>2. y \in Seq(S) /\ Len(y) = Len(before) + Len(x)
    BY <1>0, <2>1, ConcatProperties
  <2>3. Joined(S, w, y, after) /\ Joined(S, y, before, x)
    BY <1>0, <2>1, <2>2 DEF Joined
  <2>4. ReadsAt(t, o, y) /\ ReadsAt(t, o + Len(y), after) /\ o \in Nat
        /\ Len(w) = Len(y) + Len(after)
    BY <2>3, ReadsBoth
  <2>5. ReadsAt(t, o, before) /\ ReadsAt(t, o + Len(before), x)
    BY <2>3, <2>4, ReadsBoth
  <2>6. PICK i \in Nat, j \in Nat, k \in Nat : i = Len(before) /\ j = Len(x) /\ k = Len(after)
    BY <1>0
  <2>7. o + (i + j) = o + i + j /\ (i + j) + k = i + j + k
    BY <2>4
  <2>. QED  BY <1>2, <2>2, <2>4, <2>5, <2>6, <2>7
<1>. QED  BY <1>1, <1>2

LEMMA FrontIsRead ==
    ASSUME NEW S, Delims \subseteq S, NEW c \in [Parts -> Seq(S)], c["scheme"] # <<>>, c["port"] # <<>>,
           NEW t, Len(t) \in Nat, ReadsAt(t, 0, BeforePath(c))
    PROVE  \E from, host, colon, slash :
              FrontAt(t, c, from, host, colon, slash) /\ slash = Len(BeforePath(c))
<1>1. PICK cs \in Seq(S), cu \in Seq(S), ch \in Seq(S), cp \in Seq(S) :
         cs = c["scheme"] /\ cu = c["userinfo"] /\ ch = c["host"] /\ cp = c["port"]
  BY DEF Parts
<1>2. PICK ls \in Nat, lu \in Nat, lh \in Nat, lp \in Nat :
         ls = Len(cs) /\ lu = Len(cu) /\ lh = Len(ch) /\ lp = Len(cp)
  OBVIOUS
<1>3. PICK sep, sign, dots, nil :
         sep = <<":", "/", "/">> /\ sign = <<"@">> /\ dots = <<":">> /\ nil = <<>>
  OBVIOUS
<1>4. /\ sep \in Seq(S) /\ sign \in Seq(S) /\ dots \in Seq(S) /\ nil \in Seq(S)
      /\ Len(sep) = 3 /\ Len(sign) = 1 /\ Len(dots) = 1 /\ Len(nil) = 0
  BY <1>3, DelimTexts
<1>5. PICK p1, p2, p3 : p1 = With(nil, cs, sep) /\ p2 = With(nil, cu, sign) /\ p3 = With(dots, cp, nil)
  OBVIOUS
<1>6. PICK x, y, z : x = p1 \o p2 /\ y = x \o ch /\ z = y \o p3
  OBVIOUS
<1>7. BeforePath(c) = z
  BY <1>1, <1>3, <1>5, <1>6 DEF BeforePath
<1>8. p1 \in Seq(S) /\ p2 \in Seq(S) /\ p3 \in Seq(S) /\ x \in Seq(S) /\ y \in Seq(S)
  <2>1. p1 \in Seq(S) /\ p2 \in Seq(S) /\ p3 \in Seq(S)
    BY <1>4, <1>5, WithIsIn
  <2>2. x \in Seq(S)
    BY <1>6, <2>1, ConcatProperties
  <2>. QED  BY <1>6, <2>1, <2>2, ConcatProperties
<1>8a. /\ Joined(S, z, y, p3) /\ Joined(S, y, x, ch) /\ Joined(S, x, p1, p2)
       /\ IsWith(S, p1, nil, cs, sep) /\ IsWith(S, p2, nil, cu, sign) /\ IsWith(S, p3, dots, cp, nil)
  BY <1>4, <1>5, <1>6, <1>8 DEF Joined, IsWith
<1>9. PICK l1 \in Nat, l2 \in Nat, l3 \in Nat : l1 = Len(p1) /\ l2 = Len(p2) /\ l3 = Len(p3)
  BY <1>8
<1>10. ReadsAt(t, 0, y) /\ ReadsAt(t, 0 + Len(y), p3) /\ Len(z) = Len(y) + Len(p3)
  <2>1. ReadsAt(t, 0, z)
    BY <1>7
  <2>. QED  BY <1>8a, <2>1, ReadsBoth
<1>11. /\ ReadsAt(t, 0, x) /\ ReadsAt(t, 0 + Len(x), ch) /\ Len(y) = Len(x) + Len(ch)
       /\ ReadsAt(t, 0, p1) /\ ReadsAt(t, 0 + Len(p1), p2) /\ Len(x) = Len(p1) + Len(p2)
  <2>1. ReadsAt(t, 0, x) /\ ReadsAt(t, 0 + Len(x), ch) /\ Len(y) = Len(x) + Len(ch)
    BY <1>8a, <1>10, ReadsBoth
  <2>2. ReadsAt(t, 0, p1) /\ ReadsAt(t, 0 + Len(p1), p2) /\ Len(x) = Len(p1) + Len(p2)
    BY <1>8a, <2>1, ReadsBoth
  <2>. QED  BY <2>1, <2>2
<1>12. /\ ReadsAt(t, 0, p1) /\ ReadsAt(t, l1, p2) /\ ReadsAt(t, l1 + l2, ch) /\ ReadsAt(t, l1 + l2 + lh, p3)
       /\ Len(BeforePath(c)) = l1 + l2 + lh + l3
  <2>1. Len(x) = l1 + l2 /\ Len(y) = l1 + l2 + lh /\ Len(z) = l1 + l2 + lh + l3
    BY <1>2, <1>9, <1>10, <1>11
  <2>2. 0 + l1 = l1 /\ 0 + (l1 + l2) = l1 + l2 /\ 0 + (l1 + l2 + lh) = l1 + l2 + lh
    OBVIOUS
  <2>. QED  BY <1>7, <1>9, <1>10, <1>11, <2>1, <2>2
<1>13. /\ ReadsAt(t, 0, cs) /\ ReadsAt(t, ls, sep) /\ l1 = ls + 3
  <2>0. cs # <<>>
    BY <1>1
  <2>1. /\ ReadsAt(t, 0 + Len(nil), cs) /\ ReadsAt(t, 0 + Len(nil) + Len(cs), sep)
        /\ Len(p1) = Len(nil) + Len(cs) + Len(sep)
    BY <2>0, <1>8a, <1>12, WithIsRead
  <2>2. 0 + Len(nil) = 0 /\ 0 + Len(nil) + Len(cs) = ls /\ Len(nil) + Len(cs) + Len(sep) = ls + 3
    BY <1>2, <1>4
  <2>. QED  BY <1>9, <2>1, <2>2
<1>14. /\ cu = <<>> => l2 = 0
       /\ cu # <<>> => ReadsAt(t, l1, cu) /\ ReadsAt(t, l1 + lu, sign) /\ l2 = lu + 1
  <2>1. /\ cu = <<>> => Len(p2) = 0
        /\ cu # <<>> => /\ ReadsAt(t, l1 + Len(nil), cu)
                        /\ ReadsAt(t, l1 + Len(nil) + Len(cu), sign)
                        /\ Len(p2) = Len(nil) + Len(cu) + Len(sign)
    BY <1>8a, <1>12, WithIsRead
  <2>2. l1 + Len(nil) = l1 /\ l1 + Len(nil) + Len(cu) = l1 + lu /\ Len(nil) + Len(cu) + Len(sign) = lu + 1
    BY <1>2, <1>4
  <2>. QED  BY <1>9, <2>1, <2>2
<1>15. PICK colon \in Nat : colon = l1 + l2 + lh
  OBVIOUS
<1>16. ReadsAt(t, colon, dots) /\ ReadsAt(t, colon + 1, cp) /\ l3 = 1 + lp
  <2>0. cp # <<>> /\ ReadsAt(t, colon, p3)
    BY <1>1, <1>12, <1>15
  <2>1. /\ ReadsAt(t, colon, dots) /\ ReadsAt(t, colon + Len(dots), cp)
        /\ Len(p3) = Len(dots) + Len(cp) + Len(nil)
    BY <2>0, <1>8a, WithIsRead
  <2>. QED  BY <1>2, <1>4, <1>9, <2>1
<1>17. FrontAt(t, c, l1, l1 + l2, colon, colon + 1 + lp)
  <2>1. l1 + l2 \in Nat /\ colon + 1 + lp \in Nat /\ (l2 = 0 => l1 + l2 = l1)
        /\ (l2 = lu + 1 => l1 + l2 = l1 + lu + 1)
    OBVIOUS
  <2>2. ReadsAt(t, l1 + l2, ch)
    BY <1>12
  <2>3. IF cu = <<>> THEN l1 + l2 = l1
        ELSE ReadsAt(t, l1, cu) /\ ReadsAt(t, l1 + lu, sign) /\ l1 + l2 = l1 + lu + 1
    BY <1>14, <2>1
  <2>. QED  BY <1>1, <1>2, <1>3, <1>13, <1>15, <1>16, <2>1, <2>2, <2>3 DEF FrontAt
<1>18. colon + 1 + lp = Len(BeforePath(c))
  BY <1>12, <1>15, <1>16
<1>. QED  BY <1>17, <1>18

LEMMA BackIsRead ==
    ASSUME NEW S, Delims \subseteq S, NEW c \in [Parts -> Seq(S)],
           NEW t, Len(t) \in Nat, NEW s, ReadsAt(t, s, c["path"] \o AfterPath(c)),
           Len(t) = s + Len(c["path"] \o AfterPath(c))
    PROVE  \E q, h : TailAt(t, s, c, q, h)
<1>1. PICK cp \in Seq(S), cq \in Seq(S), cf \in Seq(S) :
         cp = c["path"] /\ cq = c["query"] /\ cf = c["fragment"]
  BY DEF Parts
<1>2. PICK lp \in Nat, lq \in Nat, lf \in Nat, n \in Nat :
         lp = Len(cp) /\ lq = Len(cq) /\ lf = Len(cf) /\ n = Len(t)
  OBVIOUS
<1>3. PICK mark, sharp, nil : mark = <<"?">> /\ sharp = <<"#">> /\ nil = <<>>
  OBVIOUS
<1>4. /\ mark \in Seq(S) /\ sharp \in Seq(S) /\ nil \in Seq(S)
      /\ Len(mark) = 1 /\ Len(sharp) = 1 /\ Len(nil) = 0
  BY <1>3, DelimTexts
<1>5. PICK p4, p5 : p4 = With(mark, cq, nil) /\ p5 = With(sharp, cf, nil)
  OBVIOUS
<1>6. p4 \in Seq(S) /\ p5 \in Seq(S)
  BY <1>4, <1>5, WithIsIn
<1>7. PICK y, z : y = p4 \o p5 /\ z = cp \o y
  OBVIOUS
<1>8. AfterPath(c) = y /\ y \in Seq(S)
  <2>1. y \in Seq(S)
    BY <1>6, <1>7, ConcatProperties
  <2>. QED  BY <1>1, <1>3, <1>5, <1>7, <2>1 DEF AfterPath
<1>8b. /\ Joined(S, z, cp, y) /\ Joined(S, y, p4, p5)
       /\ IsWith(S, p4, mark, cq, nil) /\ IsWith(S, p5, sharp, cf, nil)
  BY <1>4, <1>5, <1>6, <1>7, <1>8 DEF Joined, IsWith
<1>8a. PICK l4 \in Nat, l5 \in Nat : l4 = Len(p4) /\ l5 = Len(p5)
  BY <1>6
<1>9. s \in Nat /\ ReadsAt(t, s, cp) /\ ReadsAt(t, s + lp, y) /\ n = s + lp + Len(y)
  <2>1. ReadsAt(t, s, z) /\ n = s + Len(z)
    BY <1>1, <1>2, <1>7, <1>8
  <2>2. s \in Nat /\ ReadsAt(t, s, cp) /\ ReadsAt(t, s + Len(cp), y) /\ Len(z) = Len(cp) + Len(y)
    BY <1>8b, <2>1, ReadsBoth
  <2>3. PICK k \in Nat : k = Len(y)
    BY <1>8
  <2>. QED  BY <1>2, <2>1, <2>2, <2>3
<1>10. PICK q \in Nat : q = s + lp
  BY <1>9
<1>11. ReadsAt(t, q, p4) /\ ReadsAt(t, q + l4, p5) /\ n = q + l4 + l5
  <2>0. ReadsAt(t, q, y)
    BY <1>9, <1>10
  <2>1. ReadsAt(t, q, p4) /\ ReadsAt(t, q + Len(p4), p5) /\ Len(y) = Len(p4) + Len(p5)
    BY <1>8b, <2>0, ReadsBoth
  <2>. QED  BY <1>8a, <1>9, <1>10, <2>1
<1>12. /\ cq = <<>> => l4 = 0
       /\ cq # <<>> => ReadsAt(t, q, mark) /\ ReadsAt(t, q + 1, cq) /\ l4 = 1 + lq
  <2>1. /\ cq = <<>> => Len(p4) = 0
        /\ cq # <<>> => /\ ReadsAt(t, q, mark) /\ ReadsAt(t, q + Len(mark), cq)
                        /\ Len(p4) = Len(mark) + Len(cq) + Len(nil)
    BY <1>8b, <1>11, WithIsRead
  <2>2. Len(mark) + Len(cq) + Len(nil) = 1 + lq
    BY <1>2, <1>4
  <2>. QED  BY <1>4, <1>8a, <2>1, <2>2
<1>13. PICK h \in Nat : h = q + l4
  OBVIOUS
<1>14. /\ cf = <<>> => l5 = 0
       /\ cf # <<>> => ReadsAt(t, h, sharp) /\ ReadsAt(t, h + 1, cf) /\ l5 = 1 + lf
  <2>1. /\ cf = <<>> => Len(p5) = 0
        /\ cf # <<>> => /\ ReadsAt(t, h, sharp) /\ ReadsAt(t, h + Len(sharp), cf)
                        /\ Len(p5) = Len(sharp) + Len(cf) + Len(nil)
    BY <1>8b, <1>11, <1>13, WithIsRead
  <2>2. Len(sharp) + Len(cf) + Len(nil) = 1 + lf
    BY <1>2, <1>4
  <2>. QED  BY <1>4, <1>8a, <2>1, <2>2
<1>15. IF cq = <<>> THEN h = q ELSE ReadsAt(t, q, mark) /\ ReadsAt(t, q + 1, cq) /\ h = q + 1 + lq
  BY <1>12, <1>13
<1>16. IF cf = <<>> THEN n = h ELSE ReadsAt(t, h, sharp) /\ ReadsAt(t, h + 1, cf) /\ n = h + 1 + lf
  BY <1>11, <1>13, <1>14
<1>17. TailAt(t, s, c, q, h)
  BY <1>1, <1>2, <1>3, <1>9, <1>10, <1>15, <1>16 DEF TailAt
<1>. QED  BY <1>17

(* What parse finds before the path of a plain URL.                        *)
LEMMA PlainFront ==
    ASSUME NEW S, Delims \subseteq S, NEW t \in Seq(S), NEW c \in [Parts -> Seq(S)], IsPlain(c),
           NEW from, NEW host, NEW colon, NEW slash, FrontAt(t, c, from, host, colon, slash),
           NEW q, NEW h, TailAt(t, slash, c, q, h)
    PROVE  /\ Find(t, 0, <<":", "/", "/">>) = Len(c["scheme"])
           /\ Find(t, from, <<"@">>) =
                 IF c["userinfo"] = <<>> THEN NotFound ELSE from + Len(c["userinfo"])
           /\ Find(t, host, <<":">>) = colon
           /\ Find(t, Max({host, colon + 1}), <<"/">>) = slash
<1>1. PICK cs \in Seq(S), cu \in Seq(S), ch \in Seq(S), cp \in Seq(S), ca \in Seq(S), cq \in Seq(S), cf \in Seq(S) :
         /\ cs = c["scheme"] /\ cu = c["userinfo"] /\ ch = c["host"] /\ cp = c["port"]
         /\ ca = c["path"] /\ cq = c["query"] /\ cf = c["fragment"]
  BY DEF Parts
<1>2. PICK ls \in Nat, lu \in Nat, lh \in Nat, lp \in Nat :
         ls = Len(cs) /\ lu = Len(cu) /\ lh = Len(ch) /\ lp = Len(cp)
  OBVIOUS
<1>2a. PICK la \in Nat, lq \in Nat, lf \in Nat, n \in Nat :
         la = Len(ca) /\ lq = Len(cq) /\ lf = Len(cf) /\ n = Len(t)
  OBVIOUS
<1>3. PICK sep, sign, dots, dash :
         sep = <<":", "/", "/">> /\ sign = <<"@">> /\ dots = <<":">> /\ dash = <<"/">>
  OBVIOUS
<1>4. /\ sep \in Seq(S) /\ sign \in Seq(S) /\ dots \in Seq(S) /\ dash \in Seq(S)
      /\ sep # <<>> /\ sign # <<>> /\ dots # <<>> /\ dash # <<>>
      /\ sep[1] = ":" /\ sign[1] = "@" /\ dots[1] = ":" /\ dash[1] = "/"
  <2>1. /\ sep # <<>> /\ sign # <<>> /\ dots # <<>> /\ dash # <<>>
        /\ sep[1] = ":" /\ sign[1] = "@" /\ dots[1] = ":" /\ dash[1] = "/"
    BY <1>3
  <2>. QED  BY <1>3, <2>1, DelimTexts
<1>5. /\ HasNone(cs, {":", "/", "@", "?", "#"}) /\ HasNone(ch, {":", "/", "@", "?", "#"})
      /\ HasNone(cp, {":", "/", "@", "?", "#"}) /\ HasNone(cu, {"/", "@", "?", "#"})
      /\ HasPlainTail(c)
  BY <1>1 DEF IsPlain
<1>6. /\ from \in Nat /\ host \in Nat /\ colon \in Nat /\ slash \in Nat
      /\ ReadsAt(t, 0, cs) /\ ReadsAt(t, ls, sep) /\ from = ls + 3
      /\ IF cu = <<>> THEN host = from
         ELSE ReadsAt(t, from, cu) /\ ReadsAt(t, from + lu, sign) /\ host = from + lu + 1
      /\ ReadsAt(t, host, ch) /\ colon = host + lh
      /\ ReadsAt(t, colon, dots) /\ ReadsAt(t, colon + 1, cp) /\ slash = colon + 1 + lp
  BY <1>1, <1>2, <1>3 DEF FrontAt
<1>7. /\ q \in Nat /\ h \in Nat /\ ReadsAt(t, slash, ca) /\ q = slash + la
      /\ IF cq = <<>> THEN h = q
         ELSE ReadsAt(t, q, <<"?">>) /\ ReadsAt(t, q + 1, cq) /\ h = q + 1 + lq
      /\ IF cf = <<>> THEN n = h
         ELSE ReadsAt(t, h, <<"#">>) /\ ReadsAt(t, h + 1, cf) /\ n = h + 1 + lf
  BY <1>1, <1>2, <1>2a DEF TailAt
<1>7a. /\ q \in Nat /\ h \in Nat /\ q = slash + la
       /\ cq # <<>> => h = q + 1 + lq
       /\ cf # <<>> => n = h + 1 + lf
  BY <1>7
<1>8. Find(t, 0, sep) = ls
  <2>1. \A i \in 0 .. ls - 1 : t[i + 1] # sep[1]
    <3>. SUFFICES ASSUME NEW i \in 0 .. ls - 1 PROVE t[i + 1] # ":"
      BY <1>4
    <3>1. i \in 0 .. 0 + Len(cs) - 1
      BY <1>2
    <3>2. t[i + 1] \notin {":", "/", "@", "?", "#"}
      BY <1>5, <1>6, <3>1, NoneThere
    <3>. QED  BY <3>2
  <2>2. 0 \in Nat /\ 0 <= ls
    OBVIOUS
  <2>9. IsFirst(S, t, sep, 0, ls)
    BY <1>4, <1>6, <2>1, <2>2 DEF IsFirst
  <2>. QED  BY <2>9, FindIs
<1>9. Find(t, host, dots) = colon
  <2>1. \A i \in host .. colon - 1 : t[i + 1] # dots[1]
    <3>. SUFFICES ASSUME NEW i \in host .. colon - 1 PROVE t[i + 1] # ":"
      BY <1>4
    <3>1. i \in host .. host + Len(ch) - 1
      BY <1>2, <1>6
    <3>2. t[i + 1] \notin {":", "/", "@", "?", "#"}
      BY <1>5, <1>6, <3>1, NoneThere
    <3>. QED  BY <3>2
  <2>2. host <= colon
    BY <1>6
  <2>9. IsFirst(S, t, dots, host, colon)
    BY <1>4, <1>6, <2>1, <2>2 DEF IsFirst
  <2>. QED  BY <2>9, FindIs
<1>10. Find(t, Max({host, colon + 1}), dash) = slash
  <2>1. Max({host, colon + 1}) = colon + 1
    BY <1>6, MaxOfTwo
  <2>2. ReadsAt(t, slash, dash)
    <3>1. ca # <<>> /\ Head(ca) = "/"
      BY <1>1, <1>5 DEF HasPlainTail
    <3>2. 1 \in 1 .. Len(ca) /\ ca[1] = "/"
      BY <3>1, EmptySeq
    <3>3. slash + la <= n /\ \A i \in 1 .. Len(ca) : t[slash + i] = ca[i]
      BY <1>2, <1>2a, <1>7 DEF ReadsAt
    <3>4. t[slash + 1] = "/" /\ slash + 1 <= n
      <4>1. t[slash + 1] = ca[1]
        BY <3>2, <3>3
      <4>2. la >= 1
        BY <1>2, <1>2a, <3>2
      <4>. QED  BY <1>2, <1>2a, <1>6, <3>2, <3>3, <4>1, <4>2
    <3>5. Len(dash) = 1 /\ \A i \in 1 .. 1 : i = 1
      BY <1>3
    <3>. QED  BY <1>2, <1>2a, <1>4, <1>6, <3>4, <3>5 DEF ReadsAt
  <2>3. \A i \in colon + 1 .. slash - 1 : t[i + 1] # dash[1]
    <3>. SUFFICES ASSUME NEW i \in colon + 1 .. slash - 1 PROVE t[i + 1] # "/"
      BY <1>4
    <3>1. i \in colon + 1 .. colon + 1 + Len(cp) - 1
      BY <1>2, <1>6
    <3>2. t[i + 1] \notin {":", "/", "@", "?", "#"}
      BY <1>5, <1>6, <3>1, NoneThere
    <3>. QED  BY <3>2
  <2>4. colon + 1 \in Nat /\ colon + 1 <= slash
    BY <1>6
  <2>9. IsFirst(S, t, dash, colon + 1, slash)
    BY <1>4, <1>6, <2>1, <2>2, <2>3, <2>4 DEF IsFirst
  <2>. QED  BY <2>1, <2>9, FindIs
<1>11. Find(t, from, sign) = IF cu = <<>> THEN NotFound ELSE from + lu
  <2>1. CASE cu # <<>>
    <3>1. \A i \in from .. from + lu - 1 : t[i + 1] # sign[1]
      <4>. SUFFICES ASSUME NEW i \in from .. from + lu - 1 PROVE t[i + 1] # "@"
        BY <1>4
      <4>1. i \in from .. from + Len(cu) - 1
        BY <1>2, <1>6
      <4>2. t[i + 1] \notin {"/", "@", "?", "#"}
        BY <1>5, <1>6, <2>1, <4>1, NoneThere
      <4>. QED  BY <4>2
    <3>2. PICK k \in Nat : k = from + lu /\ from <= k
      BY <1>6
    <3>3. ReadsAt(t, k, sign) /\ \A i \in from .. k - 1 : t[i + 1] # sign[1]
      BY <1>6, <2>1, <3>1, <3>2
    <3>9. IsFirst(S, t, sign, from, k)
      BY <1>4, <1>6, <2>1, <3>2, <3>3 DEF IsFirst
    <3>. QED  BY <2>1, <3>2, <3>9, FindIs
  <2>2. CASE cu = <<>>
    <3>1. HasNone(ca, {"@"}) /\ HasNone(cq, {"@"}) /\ HasNone(cf, {"@"})
      <4>1. "@" \notin Tail3(c)
        BY <1>1, <2>2 DEF IsPlain
      <4>2. Tail3(c) = ToSet(ca \o cq \o cf)
        BY <1>1 DEF Tail3
      <4>3. ToSet(ca) \cup ToSet(cq) \cup ToSet(cf) \subseteq ToSet(ca \o cq \o cf)
        BY RangeOfBoth
      <4>. QED  BY <4>1, <4>2, <4>3 DEF HasNone
    <3>2. ASSUME NEW i \in from .. n - 1 PROVE t[i + 1] # "@"
      <4>0. host = from
        BY <1>6, <2>2
      <4>1. CASE i \in host .. colon - 1
        <5>1. i \in host .. host + Len(ch) - 1
          BY <1>2, <1>6, <4>1
        <5>2. t[i + 1] \notin {":", "/", "@", "?", "#"}
          BY <1>5, <1>6, <5>1, NoneThere
        <5>. QED  BY <5>2
      <4>2. CASE i = colon
        BY <1>3, <1>6, <4>2, SymbolThere, Delimiters
      <4>3. CASE i \in colon + 1 .. slash - 1
        <5>1. i \in colon + 1 .. colon + 1 + Len(cp) - 1
          BY <1>2, <1>6, <4>3
        <5>2. t[i + 1] \notin {":", "/", "@", "?", "#"}
          BY <1>5, <1>6, <5>1, NoneThere
        <5>. QED  BY <5>2
      <4>4. CASE i \in slash .. q - 1
        <5>1. i \in slash .. slash + Len(ca) - 1
          BY <1>2, <1>2a, <1>6, <1>7, <4>4
        <5>2. t[i + 1] \notin {"@"}
          BY <1>7, <3>1, <5>1, NoneThere
        <5>. QED  BY <5>2
      <4>5. CASE i = q /\ cq # <<>>
        BY <1>7, <4>5, SymbolThere, Delimiters
      <4>6. CASE i \in q + 1 .. h - 1 /\ cq # <<>>
        <5>1. i \in q + 1 .. q + 1 + Len(cq) - 1
          BY <1>2, <1>2a, <1>7a, <4>6
        <5>2. t[i + 1] \notin {"@"}
          BY <1>7, <3>1, <4>6, <5>1, NoneThere
        <5>. QED  BY <5>2
      <4>7. CASE i = h /\ cf # <<>>
        BY <1>7, <4>7, SymbolThere, Delimiters
      <4>8. CASE i \in h + 1 .. n - 1 /\ cf # <<>>
        <5>1. i \in h + 1 .. h + 1 + Len(cf) - 1
          BY <1>2, <1>2a, <1>7a, <4>8
        <5>2. t[i + 1] \notin {"@"}
          BY <1>7, <3>1, <4>8, <5>1, NoneThere
        <5>. QED  BY <5>2
      <4>9. /\ host \in Nat /\ colon \in Nat /\ slash \in Nat /\ q \in Nat /\ h \in Nat /\ i \in Int
            /\ i >= host /\ i < n
            /\ cq = <<>> => h = q
            /\ cf = <<>> => n = h
        BY <1>6, <1>7, <4>0
      <4>. QED  BY <4>1, <4>2, <4>3, <4>4, <4>5, <4>6, <4>7, <4>8, <4>9
    <3>3. \A i \in from .. Len(t) - 1 : t[i + 1] # sign[1]
      BY <1>2, <1>2a, <1>4, <3>2
    <3>. QED  BY <1>4, <1>6, <2>2, <3>3, FindsNothing
  <2>. QED  BY <2>1, <2>2
<1>. QED  BY <1>1, <1>2, <1>3, <1>8, <1>9, <1>10, <1>11

-----------------------------------------------------------------------------
(* The views into such a URL.                                              *)

View(base, f, t) == [ptr |-> base + f, len |-> t - f]

(* What parse finds, one after the other.                                  *)
ParsedAt(text, base, scheme, from, user, host, colon, slash, path, query, hash, u) ==
    /\ scheme = Find(text, 0, <<":", "/", "/">>)
    /\ from = IF scheme = NotFound THEN 0 ELSE scheme + 3
    /\ user = Find(text, from, <<"@">>)
    /\ host = IF user = NotFound THEN from ELSE user + 1
    /\ colon = Find(text, host, <<":">>)
    /\ slash = Find(text, Max({host, colon + 1}), <<"/">>)
    /\ path = IF slash # NotFound THEN slash ELSE colon + 1
    /\ query = Find(text, path, <<"?">>)
    /\ hash = Find(text, Max({path, query + 1}), <<"#">>)
    /\ u = ParseUrl(text, base)

(* The views that parse makes, if the offsets it finds are these.          *)
PartsAre(text, base, scheme, from, user, host, colon, slash, path, query, hash, u) ==
    /\ u.buf = text /\ u.base = base
    /\ u.part["scheme"] = IF scheme # NotFound THEN View(base, 0, scheme) ELSE Null
    /\ u.part["userinfo"] = IF user # NotFound THEN View(base, from, user) ELSE Null
    /\ u.part["host"] = View(base, host, FirstFound(<<colon, slash, Len(text)>>))
    /\ u.part["port"] = IF colon # NotFound /\ slash # NotFound
                        THEN View(base, colon + 1, slash) ELSE Null
    /\ u.part["path"] = IF (colon # NotFound \/ slash # NotFound) THEN View(base, path, FirstFound(<<query, hash, Len(text)>>))
                        ELSE Null
    /\ u.part["query"] = IF (colon # NotFound \/ slash # NotFound) /\ query # NotFound
                         THEN View(base, query + 1, FirstFound(<<hash, Len(text)>>)) ELSE Null
    /\ u.part["fragment"] = IF (colon # NotFound \/ slash # NotFound) /\ hash # NotFound
                            THEN View(base, hash + 1, Len(text)) ELSE Null

LEMMA ParsedParts ==
    ASSUME NEW text, NEW base, NEW scheme, NEW from, NEW user, NEW host, NEW colon, NEW slash,
           NEW path, NEW query, NEW hash, NEW u,
           ParsedAt(text, base, scheme, from, user, host, colon, slash, path, query, hash, u)
    PROVE  PartsAre(text, base, scheme, from, user, host, colon, slash, path, query, hash, u)
<1>. DEFINE scheme0 == Find(text, 0, <<":", "/", "/">>)
            from0   == IF scheme0 = NotFound THEN 0 ELSE scheme0 + 3
            user0   == Find(text, from0, <<"@">>)
            host0   == IF user0 = NotFound THEN from0 ELSE user0 + 1
            colon0  == Find(text, host0, <<":">>)
            slash0  == Find(text, Max({host0, colon0 + 1}), <<"/">>)
            isLong0 == colon0 # NotFound \/ slash0 # NotFound
            path0   == IF slash0 # NotFound THEN slash0 ELSE colon0 + 1
            query0  == Find(text, path0, <<"?">>)
            hash0   == Find(text, Max({path0, query0 + 1}), <<"#">>)
            parts   == [scheme   |-> IF scheme0 # NotFound THEN View(base, 0, scheme0) ELSE Null,
                        userinfo |-> IF user0 # NotFound THEN View(base, from0, user0) ELSE Null,
                        host     |-> View(base, host0, FirstFound(<<colon0, slash0, Len(text)>>)),
                        port     |-> IF colon0 # NotFound /\ slash0 # NotFound
                                     THEN View(base, colon0 + 1, slash0) ELSE Null,
                        path     |-> IF isLong0 THEN View(base, path0, FirstFound(<<query0, hash0, Len(text)>>)) ELSE Null,
                        query    |-> IF isLong0 /\ query0 # NotFound
                                     THEN View(base, query0 + 1, FirstFound(<<hash0, Len(text)>>)) ELSE Null,
                        fragment |-> IF isLong0 /\ hash0 # NotFound THEN View(base, hash0 + 1, Len(text)) ELSE Null]
<1>1. u = [buf |-> text, base |-> base, part |-> parts]
  BY Zenon DEF ParsedAt, ParseUrl, View
<1>2. /\ scheme = scheme0 /\ from = from0 /\ user = user0 /\ host = host0 /\ colon = colon0
      /\ slash = slash0 /\ path = path0 /\ query = query0 /\ hash = hash0
  BY DEF ParsedAt
<1>. HIDE DEF scheme0, from0, user0, host0, colon0, slash0, path0, query0, hash0
<1>. QED  BY <1>1, <1>2 DEF PartsAre

AreFinds(t, s, query, hash) ==
    query = Find(t, s, <<"?">>) /\ hash = Find(t, Max({s, query + 1}), <<"#">>)

(* The path, the query and the fragment.                                   *)
HasTail(S, t, c, s, q, h) ==
    /\ Delims \subseteq S /\ t \in Seq(S) /\ c \in [Parts -> Seq(S)]
    /\ HasPlainTail(c) /\ TailAt(t, s, c, q, h)

LEMMA TailFinds ==
    ASSUME NEW S, NEW t, NEW c, NEW s, NEW q, NEW h, HasTail(S, t, c, s, q, h),
           NEW query, NEW hash, AreFinds(t, s, query, hash)
    PROVE  /\ FirstFound(<<query, hash, Len(t)>>) = q
           /\ query # NotFound <=> c["query"] # <<>>
           /\ query # NotFound => query = q /\ FirstFound(<<hash, Len(t)>>) = h
           /\ hash # NotFound <=> c["fragment"] # <<>>
           /\ hash # NotFound => hash = h
<1>1. /\ query = IF c["query"] = <<>> THEN NotFound ELSE q
      /\ hash = IF c["fragment"] = <<>> THEN NotFound ELSE h
  <2>1. Delims \subseteq S /\ t \in Seq(S) /\ c \in [Parts -> Seq(S)] /\ HasPlainTail(c)
    BY DEF HasTail
  <2>2. TailAt(t, s, c, q, h)
    BY DEF HasTail
  <2>3. query = Find(t, s, <<"?">>) /\ hash = Find(t, Max({s, query + 1}), <<"#">>)
    BY DEF AreFinds
  <2>. QED  BY <2>1, <2>2, <2>3, PlainTail DEF Delims
<1>2. /\ q \in Nat /\ h \in Nat
      /\ c["query"] = <<>> => h = q
      /\ c["fragment"] = <<>> => Len(t) = h
  BY DEF HasTail, TailAt
<1>3. PICK n \in Nat : n = Len(t)
  BY DEF HasTail
<1>4. query \in Int /\ hash \in Int /\ n \in Int /\ n # NotFound /\ q # NotFound /\ h # NotFound
  BY <1>1, <1>2 DEF NotFound
<1>5. FirstFound(<<query, hash, n>>) = IF query # NotFound THEN query ELSE IF hash # NotFound THEN hash ELSE n
  BY <1>4, FirstOfThree
<1>6. FirstFound(<<hash, n>>) = IF hash # NotFound THEN hash ELSE n
  BY <1>4, FirstOfTwo
<1>. QED  BY <1>1, <1>2, <1>3, <1>4, <1>5, <1>6

(* The hypotheses of the lemmas below, each in one piece.                  *)
IsPrintedAt(S, t, c, from, host, colon, slash, q, h) ==
    /\ Delims \subseteq S /\ t \in Seq(S) /\ c \in [Parts -> Seq(S)] /\ IsPlain(c)
    /\ FrontAt(t, c, from, host, colon, slash) /\ TailAt(t, slash, c, q, h)

LEMMA PrintedFront ==
    ASSUME NEW S, NEW t, NEW c, NEW from, NEW host, NEW colon, NEW slash, NEW q, NEW h,
           IsPrintedAt(S, t, c, from, host, colon, slash, q, h)
    PROVE  /\ Find(t, 0, <<":", "/", "/">>) = Len(c["scheme"])
           /\ Find(t, from, <<"@">>) =
                 IF c["userinfo"] = <<>> THEN NotFound ELSE from + Len(c["userinfo"])
           /\ Find(t, host, <<":">>) = colon
           /\ Find(t, Max({host, colon + 1}), <<"/">>) = slash
<1>1. Delims \subseteq S /\ t \in Seq(S) /\ c \in [Parts -> Seq(S)] /\ IsPlain(c)
  BY DEF IsPrintedAt
<1>2. FrontAt(t, c, from, host, colon, slash) /\ TailAt(t, slash, c, q, h)
  BY DEF IsPrintedAt
<1>. QED  BY <1>1, <1>2, PlainFront, Zenon

LEMMA PrintedTail ==
    ASSUME NEW S, NEW t, NEW c, NEW from, NEW host, NEW colon, NEW slash, NEW q, NEW h,
           IsPrintedAt(S, t, c, from, host, colon, slash, q, h),
           NEW query, NEW hash, AreFinds(t, slash, query, hash)
    PROVE  /\ FirstFound(<<query, hash, Len(t)>>) = q
           /\ query # NotFound <=> c["query"] # <<>>
           /\ query # NotFound => query = q /\ FirstFound(<<hash, Len(t)>>) = h
           /\ hash # NotFound <=> c["fragment"] # <<>>
           /\ hash # NotFound => hash = h
<1>1. HasTail(S, t, c, slash, q, h)
  BY DEF IsPrintedAt, IsPlain, HasTail
<1>. QED  BY <1>1, TailFinds

(* What a view shows.                                                      *)
Shows(S, u, p, o, x) ==
    /\ u.buf \in Seq(S) /\ u.base \in Nat /\ x \in Seq(S)
    /\ ReadsAt(u.buf, o, x) /\ u.part[p] = View(u.base, o, o + Len(x))

LEMMA ViewShows ==
    ASSUME NEW S, NEW u, NEW p, NEW o, NEW x, Shows(S, u, p, o, x)
    PROVE  TextOf(u, p) = x
<1>0. /\ u.buf \in Seq(S) /\ u.base \in Nat /\ x \in Seq(S)
      /\ ReadsAt(u.buf, o, x) /\ u.part[p] = View(u.base, o, o + Len(x))
  BY DEF Shows
<1>1. PICK b \in Nat, l \in Nat : b = u.base /\ l = Len(x)
  BY <1>0
<1>2. o \in Nat
  BY <1>0 DEF ReadsAt
<1>3. u.part[p].ptr = b + o /\ u.part[p].len = (o + l) - o
  <2>1. u.part[p] = View(b, o, o + l)
    BY <1>0, <1>1
  <2>2. View(b, o, o + l).ptr = b + o /\ View(b, o, o + l).len = (o + l) - o
    BY DEF View
  <2>. QED  BY <2>1, <2>2
<1>4. TextOf(u, p) = SubSeq(u.buf, (b + o) - b + 1, (b + o) - b + ((o + l) - o))
  BY <1>1, <1>3, Zenon DEF TextOf, TextAt
<1>5. (b + o) - b + 1 = o + 1 /\ (b + o) - b + ((o + l) - o) = o + l
  BY <1>2
<1>. QED  BY <1>0, <1>1, <1>4, <1>5, WhatIsRead

LEMMA NullShows ==
    ASSUME NEW u, u.base \in Nat, NEW p, u.part[p] = Null
    PROVE  TextOf(u, p) = <<>>
<1>1. TextOf(u, p) = SubSeq(u.buf, 0 - u.base + 1, 0 - u.base + 0)
  BY DEF TextOf, TextAt, Null
<1>2. SubSeq(u.buf, 0 - u.base + 1, 0 - u.base + 0) = <<>>
  BY SubSeqEmpty
<1>. QED  BY <1>1, <1>2

(* The views into a plain URL.                                             *)
LEMMA PrintedParts ==
    ASSUME NEW S, NEW t, NEW c, NEW from, NEW host, NEW colon, NEW slash, NEW q, NEW h,
           IsPrintedAt(S, t, c, from, host, colon, slash, q, h),
           NEW base, NEW u, u = ParseUrl(t, base)
    PROVE  /\ u.buf = t /\ u.base = base
           /\ u.part["scheme"] = View(base, 0, Len(c["scheme"]))
           /\ u.part["userinfo"] = IF c["userinfo"] # <<>>
                                   THEN View(base, from, from + Len(c["userinfo"])) ELSE Null
           /\ u.part["host"] = View(base, host, colon)
           /\ u.part["port"] = View(base, colon + 1, slash)
           /\ u.part["path"] = View(base, slash, q)
           /\ u.part["query"] = IF c["query"] # <<>> THEN View(base, q + 1, h) ELSE Null
           /\ u.part["fragment"] = IF c["fragment"] # <<>> THEN View(base, h + 1, Len(t)) ELSE Null
<1>1. PICK scheme, user, query, hash :
         /\ scheme = Find(t, 0, <<":", "/", "/">>) /\ user = Find(t, from, <<"@">>)
         /\ query = Find(t, slash, <<"?">>) /\ hash = Find(t, Max({slash, query + 1}), <<"#">>)
  OBVIOUS
<1>2. /\ scheme = Len(c["scheme"])
      /\ user = IF c["userinfo"] = <<>> THEN NotFound ELSE from + Len(c["userinfo"])
      /\ colon = Find(t, host, <<":">>)
      /\ slash = Find(t, Max({host, colon + 1}), <<"/">>)
  <2>1. /\ Find(t, 0, <<":", "/", "/">>) = Len(c["scheme"])
        /\ Find(t, from, <<"@">>) = IF c["userinfo"] = <<>> THEN NotFound ELSE from + Len(c["userinfo"])
        /\ Find(t, host, <<":">>) = colon
        /\ Find(t, Max({host, colon + 1}), <<"/">>) = slash
    BY PrintedFront
  <2>. QED  BY <1>1, <2>1
<1>3. /\ FirstFound(<<query, hash, Len(t)>>) = q
      /\ query # NotFound <=> c["query"] # <<>>
      /\ query # NotFound => query = q /\ FirstFound(<<hash, Len(t)>>) = h
      /\ hash # NotFound <=> c["fragment"] # <<>>
      /\ hash # NotFound => hash = h
  <2>1. AreFinds(t, slash, query, hash)
    BY <1>1 DEF AreFinds
  <2>. QED  BY <2>1, PrintedTail
<1>4. /\ FrontAt(t, c, from, host, colon, slash) /\ t \in Seq(S)
      /\ c["scheme"] \in Seq(S) /\ c["userinfo"] \in Seq(S)
  BY DEF IsPrintedAt, Parts
<1>5. PICK ls \in Nat, lu \in Nat, n \in Nat :
         ls = Len(c["scheme"]) /\ lu = Len(c["userinfo"]) /\ n = Len(t)
  BY <1>4
<1>6. /\ from \in Nat /\ host \in Nat /\ colon \in Nat /\ slash \in Nat /\ from = ls + 3
      /\ c["userinfo"] = <<>> => host = from
      /\ c["userinfo"] # <<>> => host = from + lu + 1
  BY <1>4, <1>5 DEF FrontAt
<1>7. /\ scheme # NotFound /\ colon # NotFound /\ slash # NotFound /\ n # NotFound /\ from + lu # NotFound
      /\ colon \in Int /\ slash \in Int /\ n \in Int
  <2>1. scheme = ls
    BY <1>2, <1>5
  <2>2. ls # NotFound /\ n # NotFound
    BY DEF NotFound
  <2>3. colon # NotFound /\ slash # NotFound /\ from + lu # NotFound
    BY <1>6 DEF NotFound
  <2>. QED  BY <1>6, <2>1, <2>2, <2>3
<1>8. /\ user # NotFound <=> c["userinfo"] # <<>>
      /\ from = IF scheme = NotFound THEN 0 ELSE scheme + 3
      /\ host = IF user = NotFound THEN from ELSE user + 1
  <2>1. user = IF c["userinfo"] = <<>> THEN NotFound ELSE from + lu
    BY <1>2, <1>5
  <2>2. scheme = ls
    BY <1>2, <1>5
  <2>. QED  BY <1>6, <1>7, <2>1, <2>2
<1>9. FirstFound(<<colon, slash, Len(t)>>) = colon
  BY <1>5, <1>7, FirstOfThree
<1>10. PICK path : path = IF slash # NotFound THEN slash ELSE colon + 1
  OBVIOUS
<1>11. path = slash
  BY <1>7, <1>10
<1>12. query = Find(t, path, <<"?">>) /\ hash = Find(t, Max({path, query + 1}), <<"#">>)
  BY <1>1, <1>11
<1>13. ParsedAt(t, base, scheme, from, user, host, colon, slash, path, query, hash, u)
  BY <1>1, <1>2, <1>8, <1>10, <1>12, Zenon DEF ParsedAt
<1>14. /\ u.buf = t /\ u.base = base
       /\ u.part["scheme"] = IF scheme # NotFound THEN View(base, 0, scheme) ELSE Null
       /\ u.part["userinfo"] = IF user # NotFound THEN View(base, from, user) ELSE Null
       /\ u.part["host"] = View(base, host, FirstFound(<<colon, slash, Len(t)>>))
       /\ u.part["port"] = IF colon # NotFound /\ slash # NotFound
                           THEN View(base, colon + 1, slash) ELSE Null
       /\ u.part["path"] = IF (colon # NotFound \/ slash # NotFound) THEN View(base, path, FirstFound(<<query, hash, Len(t)>>))
                           ELSE Null
       /\ u.part["query"] = IF (colon # NotFound \/ slash # NotFound) /\ query # NotFound
                            THEN View(base, query + 1, FirstFound(<<hash, Len(t)>>)) ELSE Null
       /\ u.part["fragment"] = IF (colon # NotFound \/ slash # NotFound) /\ hash # NotFound
                               THEN View(base, hash + 1, Len(t)) ELSE Null
  <2>1. PartsAre(t, base, scheme, from, user, host, colon, slash, path, query, hash, u)
    BY <1>13, ParsedParts
  <2>. QED  BY <2>1, Zenon DEF PartsAre
<1>15. c["userinfo"] # <<>> => user = from + Len(c["userinfo"])
  BY <1>2
<1>. QED  BY <1>2, <1>3, <1>7, <1>8, <1>9, <1>11, <1>14, <1>15

(* parse (url.cpp:9-58) takes a plain URL apart into the parts it is       *)
(* printed from, however long they are; a part that is empty is absent.    *)
THEOREM PlainUrlsAreTakenApart ==
    ASSUME NEW S, Delims \subseteq S, NEW c \in [Parts -> Seq(S)], IsPlain(c),
           NEW base \in Nat, NEW u, u = ParseUrl(Printed(c), base)
    PROVE  /\ u.buf = Printed(c)
           /\ Texts(u) = c
           /\ Starts(u)["path"] = Len(BeforePath(c)) /\ Lengths(u)["path"] = Len(c["path"])
           /\ HostAndPort(u) = c["host"] \o <<":">> \o c["port"]
<1>1. PICK bp, ap, ca : bp = BeforePath(c) /\ ap = AfterPath(c) /\ ca = c["path"]
  OBVIOUS
<1>2. PICK r, t : r = ca \o ap /\ t = bp \o r
  OBVIOUS
<1>3. /\ bp \in Seq(S) /\ ap \in Seq(S) /\ ca \in Seq(S)
      /\ r \in Seq(S) /\ t \in Seq(S) /\ \A p \in Parts : c[p] \in Seq(S)
  <2>1. bp \in Seq(S) /\ ap \in Seq(S) /\ ca \in Seq(S) /\ \A p \in Parts : c[p] \in Seq(S)
    BY <1>1, PrintedIs DEF Parts
  <2>2. r \in Seq(S)
    BY <1>2, <2>1, ConcatProperties
  <2>3. t \in Seq(S)
    BY <1>2, <2>1, <2>2, ConcatProperties
  <2>. QED  BY <2>1, <2>2, <2>3
<1>4. t = Printed(c)
  <2>1. Printed(c) = bp \o ca \o ap
    BY <1>1, PrintedIs
  <2>2. bp \o ca \o ap = bp \o (ca \o ap)
    <3>1. bp \in Seq(S) /\ ca \in Seq(S) /\ ap \in Seq(S)
      BY <1>3
    <3>. QED  BY ONLY <3>1, SMT
  <2>. QED  BY <1>2, <2>1, <2>2
<1>5. ReadsAt(t, 0, bp) /\ ReadsAt(t, 0 + Len(bp), r) /\ Len(t) = Len(bp) + Len(r)
  <2>1. bp \in Seq(S) /\ r \in Seq(S) /\ t \in Seq(S)
    BY <1>3
  <2>2. Joined(S, t, bp, r)
    BY <1>2, <2>1 DEF Joined
  <2>3. ReadsAt(t, 0, t)
    BY <2>1, ReadsItself
  <2>4. Len(t) \in Nat
    BY <2>1
  <2>. QED  BY <2>2, <2>3, <2>4, ReadsBoth
<1>6. c["scheme"] # <<>> /\ c["port"] # <<>> /\ HasPlainTail(c)
  BY DEF IsPlain
<1>7. PICK from, host, colon, slash :
         FrontAt(t, c, from, host, colon, slash) /\ slash = Len(bp)
  <2>1. Len(t) \in Nat
    BY <1>3
  <2>2. ReadsAt(t, 0, BeforePath(c))
    BY <1>1, <1>5
  <2>3. c["scheme"] # <<>> /\ c["port"] # <<>>
    BY <1>6
  <2>4. PICK from, host, colon, slash : FrontAt(t, c, from, host, colon, slash) /\ slash = Len(BeforePath(c))
    BY <2>1, <2>2, <2>3, FrontIsRead
  <2>. QED  BY <1>1, <2>4
<1>8. PICK q, h : TailAt(t, slash, c, q, h)
  <2>1. slash \in Nat /\ 0 + Len(bp) = slash
    BY <1>3, <1>7
  <2>2. ReadsAt(t, slash, c["path"] \o AfterPath(c)) /\ Len(t) = slash + Len(c["path"] \o AfterPath(c))
    BY <1>1, <1>2, <1>5, <1>7, <2>1
  <2>3. Len(t) \in Nat
    BY <1>3
  <2>. QED  BY <2>2, <2>3, BackIsRead
<1>9. IsPrintedAt(S, t, c, from, host, colon, slash, q, h)
  BY <1>3, <1>7, <1>8 DEF IsPrintedAt
<1>12. /\ from \in Nat /\ host \in Nat /\ colon \in Nat /\ slash \in Nat
       /\ ReadsAt(t, 0, c["scheme"]) /\ from = Len(c["scheme"]) + 3
       /\ IF c["userinfo"] = <<>> THEN host = from
          ELSE ReadsAt(t, from, c["userinfo"]) /\ host = from + Len(c["userinfo"]) + 1
       /\ ReadsAt(t, host, c["host"]) /\ colon = host + Len(c["host"])
       /\ ReadsAt(t, colon, <<":">>) /\ ReadsAt(t, colon + 1, c["port"])
       /\ slash = colon + 1 + Len(c["port"])
  BY <1>7 DEF FrontAt
<1>13. /\ q \in Nat /\ h \in Nat /\ ReadsAt(t, slash, ca) /\ q = slash + Len(ca)
       /\ c["query"] # <<>> => ReadsAt(t, q + 1, c["query"]) /\ h = q + 1 + Len(c["query"])
       /\ c["fragment"] # <<>> => ReadsAt(t, h + 1, c["fragment"]) /\ Len(t) = h + 1 + Len(c["fragment"])
  BY <1>1, <1>8 DEF TailAt
<1>14. /\ c["scheme"] \in Seq(S) /\ c["userinfo"] \in Seq(S) /\ c["host"] \in Seq(S)
       /\ c["port"] \in Seq(S) /\ c["query"] \in Seq(S) /\ c["fragment"] \in Seq(S)
  BY <1>3 DEF Parts
<1>15. PICK lh \in Nat, lp \in Nat, la \in Nat, b \in Nat :
          lh = Len(c["host"]) /\ lp = Len(c["port"]) /\ la = Len(ca) /\ b = base
  BY <1>3, <1>14
<1>151. /\ host \in Nat /\ colon = host + lh /\ slash = colon + 1 + lp /\ q = slash + la
  BY <1>12, <1>13, <1>15
<1>16. /\ u.buf = t /\ u.base = base
       /\ u.part["scheme"] = View(base, 0, Len(c["scheme"]))
       /\ u.part["userinfo"] = IF c["userinfo"] # <<>>
                               THEN View(base, from, from + Len(c["userinfo"])) ELSE Null
       /\ u.part["host"] = View(base, host, colon)
       /\ u.part["port"] = View(base, colon + 1, slash)
       /\ u.part["path"] = View(base, slash, q)
       /\ u.part["query"] = IF c["query"] # <<>> THEN View(base, q + 1, h) ELSE Null
       /\ u.part["fragment"] = IF c["fragment"] # <<>> THEN View(base, h + 1, Len(t)) ELSE Null
  <2>1. u = ParseUrl(t, base)
    BY <1>4
  <2>. QED  BY <1>9, <2>1, PrintedParts
<1>17. TextOf(u, "scheme") = c["scheme"]
  <2>1. 0 + Len(c["scheme"]) = Len(c["scheme"])
    BY <1>14
  <2>2. Shows(S, u, "scheme", 0, c["scheme"])
    BY <1>3, <1>12, <1>14, <1>16, <2>1, Zenon DEF Shows
  <2>. QED  BY <2>2, ViewShows
<1>18. TextOf(u, "userinfo") = c["userinfo"]
  <2>1. CASE c["userinfo"] = <<>>
    BY <1>16, <2>1, NullShows
  <2>2. CASE c["userinfo"] # <<>>
    <3>1. Shows(S, u, "userinfo", from, c["userinfo"])
      BY <1>3, <1>12, <1>14, <1>16, <2>2, Zenon DEF Shows
    <3>. QED  BY <3>1, ViewShows
  <2>. QED  BY <2>1, <2>2
<1>19. TextOf(u, "host") = c["host"]
  <2>1. Shows(S, u, "host", host, c["host"])
    BY <1>3, <1>12, <1>14, <1>16, Zenon DEF Shows
  <2>. QED  BY <2>1, ViewShows
<1>20. TextOf(u, "port") = c["port"]
  <2>1. Shows(S, u, "port", colon + 1, c["port"])
    BY <1>3, <1>12, <1>14, <1>16, Zenon DEF Shows
  <2>. QED  BY <2>1, ViewShows
<1>21. TextOf(u, "path") = c["path"]
  <2>1. Shows(S, u, "path", slash, c["path"])
    BY <1>1, <1>3, <1>13, <1>16, Zenon DEF Shows
  <2>. QED  BY <2>1, ViewShows
<1>22. TextOf(u, "query") = c["query"]
  <2>1. CASE c["query"] = <<>>
    BY <1>16, <2>1, NullShows
  <2>2. CASE c["query"] # <<>>
    <3>1. Shows(S, u, "query", q + 1, c["query"])
      BY <1>3, <1>13, <1>14, <1>16, <2>2, Zenon DEF Shows
    <3>. QED  BY <3>1, ViewShows
  <2>. QED  BY <2>1, <2>2
<1>23. TextOf(u, "fragment") = c["fragment"]
  <2>1. CASE c["fragment"] = <<>>
    BY <1>16, <2>1, NullShows
  <2>2. CASE c["fragment"] # <<>>
    <3>1. Shows(S, u, "fragment", h + 1, c["fragment"])
      BY <1>3, <1>13, <1>14, <1>16, <2>2, Zenon DEF Shows
    <3>. QED  BY <3>1, ViewShows
  <2>. QED  BY <2>1, <2>2
<1>24. Texts(u) = c
  <2>1. \A p \in Parts : TextOf(u, p) = c[p]
    BY <1>17, <1>18, <1>19, <1>20, <1>21, <1>22, <1>23 DEF Parts
  <2>. QED  BY <2>1 DEF Texts
<1>25. Starts(u)["path"] = Len(bp) /\ Lengths(u)["path"] = Len(ca)
  <2>1. PICK l \in Nat : l = la
    OBVIOUS
  <2>2. Starts(u)["path"] = u.part["path"].ptr - u.base /\ Lengths(u)["path"] = u.part["path"].len
    BY DEF Starts, Lengths, Parts
  <2>3. u.part["path"].ptr = base + slash /\ u.part["path"].len = q - slash
    BY <1>16 DEF View
  <2>4. (base + slash) - base = slash /\ q - slash = l
    BY <1>15, <1>151, <2>1
  <2>. QED  BY <1>7, <1>15, <1>16, <2>1, <2>2, <2>3, <2>4
<1>26. HostAndPort(u) = c["host"] \o <<":">> \o c["port"]
  <2>1. lh = Len(c["host"]) /\ lp = Len(c["port"])
    BY <1>15
  <2>2. PICK ch, cp, dots, x, y : /\ ch = c["host"] /\ cp = c["port"] /\ dots = <<":">>
                                  /\ x = ch \o dots /\ y = x \o cp
    OBVIOUS
  <2>3. /\ ch \in Seq(S) /\ cp \in Seq(S) /\ dots \in Seq(S) /\ Len(dots) = 1
        /\ x \in Seq(S) /\ Len(x) = lh + 1 /\ y \in Seq(S) /\ Len(y) = lh + 1 + lp
    <3>1. ch \in Seq(S) /\ cp \in Seq(S) /\ dots \in Seq(S) /\ Len(dots) = 1
      BY <1>14, <2>2, DelimTexts
    <3>2. x \in Seq(S) /\ Len(x) = lh + 1
      BY <2>1, <2>2, <3>1, ConcatProperties
    <3>3. y \in Seq(S) /\ Len(y) = lh + 1 + lp
      BY <2>1, <2>2, <3>1, <3>2, ConcatProperties
    <3>. QED  BY <3>1, <3>2, <3>3
  <2>4. /\ u.part["host"].ptr = base + host /\ u.part["port"].ptr = base + (colon + 1)
        /\ u.part["port"].len = slash - (colon + 1)
    BY <1>16 DEF View
  <2>5. slash - (colon + 1) = lp /\ lp # 0
    <3>1. lp # 0
      BY <1>6, <1>14, <2>1, EmptySeq
    <3>. QED  BY <1>151, <3>1
  <2>6. HostAndPort(u) = TextAt(u, base + host, (base + (colon + 1)) + lp - (base + host))
    BY <2>4, <2>5 DEF HostAndPort
  <2>7. TextAt(u, base + host, (base + (colon + 1)) + lp - (base + host))
           = SubSeq(t, (base + host) - base + 1,
                       (base + host) - base + ((base + (colon + 1)) + lp - (base + host)))
    BY <1>16, Zenon DEF TextAt
  <2>8. (base + host) - base + 1 = host + 1
        /\ (base + host) - base + ((base + (colon + 1)) + lp - (base + host)) = host + (lh + 1 + lp)
    BY <1>151
  <2>9. ReadsAt(t, host, y)
    <3>1. ReadsAt(t, host, x)
      <4>1. ReadsAt(t, host + Len(ch), dots)
        BY <1>12, <2>2
      <4>2. Joined(S, x, ch, dots) /\ ReadsAt(t, host, ch) /\ Len(t) \in Nat
        BY <1>3, <1>12, <2>2, <2>3 DEF Joined
      <4>. QED  BY <4>1, <4>2, ReadsOneByOne
    <3>2. ReadsAt(t, host + Len(x), cp)
      <4>1. host + (lh + 1) = colon + 1
        BY <1>151
      <4>. QED  BY <1>12, <2>2, <2>3, <4>1
    <3>3. Joined(S, y, x, cp) /\ Len(t) \in Nat
      BY <1>3, <2>2, <2>3 DEF Joined
    <3>. QED  BY <3>1, <3>2, <3>3, ReadsOneByOne
  <2>10. SubSeq(t, host + 1, host + Len(y)) = y
    BY <1>3, <2>3, <2>9, WhatIsRead
  <2>. QED  BY <2>2, <2>3, <2>6, <2>7, <2>8, <2>10
<1>. QED  BY <1>1, <1>4, <1>16, <1>24, <1>25, <1>26

(* No symbol of D is in what follows offset s.                             *)
IsFree(S, t, c, s, q, h, D) ==
    /\ t \in Seq(S) /\ TailAt(t, s, c, q, h)
    /\ c["path"] \in Seq(S) /\ c["query"] \in Seq(S) /\ c["fragment"] \in Seq(S)
    /\ HasNone(c["path"], D) /\ HasNone(c["query"], D) /\ HasNone(c["fragment"], D)
    /\ "?" \notin D /\ "#" \notin D

LEMMA NoneInTail ==
    ASSUME NEW S, NEW t, NEW c, NEW s, NEW q, NEW h, NEW D, IsFree(S, t, c, s, q, h, D),
           NEW i \in s .. Len(t) - 1
    PROVE  t[i + 1] \notin D
<1>1. PICK ca \in Seq(S), cq \in Seq(S), cf \in Seq(S) :
         ca = c["path"] /\ cq = c["query"] /\ cf = c["fragment"]
  BY DEF IsFree
<1>2. PICK la \in Nat, lq \in Nat, lf \in Nat, n \in Nat :
         la = Len(ca) /\ lq = Len(cq) /\ lf = Len(cf) /\ n = Len(t)
  BY DEF IsFree
<1>3. /\ HasNone(ca, D) /\ HasNone(cq, D) /\ HasNone(cf, D)
      /\ "?" \notin D /\ "#" \notin D
  BY <1>1 DEF IsFree
<1>4. TailAt(t, s, c, q, h)
  BY DEF IsFree
<1>5. /\ s \in Nat /\ q \in Nat /\ h \in Nat /\ ReadsAt(t, s, ca) /\ q = s + la
      /\ IF cq = <<>> THEN h = q
         ELSE ReadsAt(t, q, <<"?">>) /\ ReadsAt(t, q + 1, cq) /\ h = q + 1 + lq
      /\ IF cf = <<>> THEN n = h
         ELSE ReadsAt(t, h, <<"#">>) /\ ReadsAt(t, h + 1, cf) /\ n = h + 1 + lf
  BY <1>1, <1>2, <1>4 DEF TailAt
<1>6. i \in Int /\ i >= s /\ i < n
  BY <1>2, <1>5
<1>7. CASE i \in s .. q - 1
  <2>1. i \in s .. s + Len(ca) - 1
    BY <1>2, <1>5, <1>7
  <2>. QED  BY <1>3, <1>5, <2>1, NoneThere
<1>8. CASE i = q /\ cq # <<>>
  <2>1. t[i + 1] = "?"
    BY <1>5, <1>8, SymbolThere
  <2>. QED  BY <1>3, <2>1
<1>9. CASE i \in q + 1 .. h - 1 /\ cq # <<>>
  <2>1. i \in q + 1 .. q + 1 + Len(cq) - 1
    BY <1>2, <1>5, <1>9
  <2>. QED  BY <1>3, <1>5, <1>9, <2>1, NoneThere
<1>10. CASE i = h /\ cf # <<>>
  <2>1. t[i + 1] = "#"
    BY <1>5, <1>10, SymbolThere
  <2>. QED  BY <1>3, <2>1
<1>11. CASE i \in h + 1 .. n - 1 /\ cf # <<>>
  <2>1. i \in h + 1 .. h + 1 + Len(cf) - 1
    BY <1>2, <1>5, <1>11
  <2>. QED  BY <1>3, <1>5, <1>11, <2>1, NoneThere
<1>12. (cq = <<>> => h = q) /\ (cf = <<>> => n = h) /\ s \in Nat /\ q \in Nat /\ h \in Nat
  BY <1>5
<1>. QED  BY <1>6, <1>7, <1>8, <1>9, <1>10, <1>11, <1>12

(* A path alone is taken for a path.                                       *)
LEMMA PlainPath ==
    ASSUME NEW S, Delims \subseteq S, NEW c \in [Parts -> Seq(S)], IsPlainPath(c),
           NEW base \in Nat, NEW u, u = ParseUrl(Printed(c), base)
    PROVE  TextOf(u, "path") = c["path"]
<1>1. PICK t : t = Printed(c)
  OBVIOUS
<1>2. /\ c["scheme"] \in Seq(S) /\ c["userinfo"] \in Seq(S) /\ c["host"] \in Seq(S)
      /\ c["port"] \in Seq(S) /\ c["path"] \in Seq(S) /\ c["query"] \in Seq(S)
      /\ c["fragment"] \in Seq(S)
  BY DEF Parts
<1>3. c["scheme"] = <<>> /\ c["userinfo"] = <<>> /\ c["host"] = <<>> /\ c["port"] = <<>>
  <2>1. c["scheme"] \o c["userinfo"] \o c["host"] \o c["port"] = <<>>
    BY DEF IsPlainPath
  <2>2. PICK z : z = c["scheme"] \o c["userinfo"] \o c["host"] \o c["port"]
    OBVIOUS
  <2>3. Len(z) = 0
    BY <2>1, <2>2
  <2>. QED  BY <1>2, <2>2, <2>3, EmptyParts
<1>4. BeforePath(c) = <<>>
  <2>1. BeforePath(c) = <<>> \o <<>> \o <<>> \o <<>>
    BY <1>3 DEF BeforePath, With
  <2>. QED  BY <2>1
<1>5. PICK r, ca, ap : r = ca \o ap /\ ca = c["path"] /\ ap = AfterPath(c)
  OBVIOUS
<1>6. ca \in Seq(S) /\ ap \in Seq(S) /\ r \in Seq(S)
  <2>1. ca \in Seq(S) /\ ap \in Seq(S)
    BY <1>2, <1>5, PrintedIs
  <2>. QED  BY <1>5, <2>1, ConcatProperties
<1>7. t = r
  <2>1. t = <<>> \o ca \o ap
    BY <1>1, <1>4, <1>5, PrintedIs
  <2>2. <<>> \o ca = ca
    BY <1>6
  <2>. QED  BY <1>5, <2>1, <2>2
<1>8. PICK q, h : TailAt(t, 0, c, q, h)
  <2>1. ReadsAt(t, 0, r) /\ Len(t) = 0 + Len(r) /\ Len(t) \in Nat
    BY <1>6, <1>7, ReadsItself
  <2>2. ReadsAt(t, 0, c["path"] \o AfterPath(c)) /\ Len(t) = 0 + Len(c["path"] \o AfterPath(c))
    BY <1>5, <2>1
  <2>. QED  BY <2>1, <2>2, BackIsRead
<1>9. HasPlainTail(c) /\ Tail3(c) \cap {"@", ":"} = {}
  BY DEF IsPlainPath
<1>10. PICK D : D = {"@", ":"}
  OBVIOUS
<1>11. HasNone(c["path"], D) /\ HasNone(c["query"], D) /\ HasNone(c["fragment"], D)
  <2>1. Tail3(c) = ToSet(c["path"]) \cup ToSet(c["query"]) \cup ToSet(c["fragment"])
    BY <1>2, RangeOfBoth DEF Tail3
  <2>. QED  BY <1>9, <1>10, <2>1 DEF HasNone
<1>12. ASSUME NEW i \in 0 .. Len(t) - 1 PROVE t[i + 1] # "@" /\ t[i + 1] # ":"
  <2>1. "?" \notin D /\ "#" \notin D
    BY <1>10, Delimiters
  <2>2. IsFree(S, t, c, 0, q, h, D)
    BY <1>2, <1>6, <1>7, <1>8, <1>11, <2>1 DEF IsFree
  <2>3. t[i + 1] \notin D
    BY <2>2, NoneInTail
  <2>. QED  BY <1>10, <2>3
<1>13. PICK sep, sign, dots, dash :
          sep = <<":", "/", "/">> /\ sign = <<"@">> /\ dots = <<":">> /\ dash = <<"/">>
  OBVIOUS
<1>14. /\ sep \in Seq(S) /\ sign \in Seq(S) /\ dots \in Seq(S) /\ dash \in Seq(S)
       /\ sep # <<>> /\ sign # <<>> /\ dots # <<>> /\ dash # <<>>
       /\ sep[1] = ":" /\ sign[1] = "@" /\ dots[1] = ":" /\ dash[1] = "/"
  <2>1. /\ sep # <<>> /\ sign # <<>> /\ dots # <<>> /\ dash # <<>>
        /\ sep[1] = ":" /\ sign[1] = "@" /\ dots[1] = ":" /\ dash[1] = "/"
    BY <1>13
  <2>. QED  BY <1>13, <2>1, DelimTexts
<1>15. t \in Seq(S)
  BY <1>6, <1>7
<1>16. Find(t, 0, sep) = NotFound /\ Find(t, 0, sign) = NotFound /\ Find(t, 0, dots) = NotFound
  <2>1. \A i \in 0 .. Len(t) - 1 : t[i + 1] # sep[1] /\ t[i + 1] # sign[1] /\ t[i + 1] # dots[1]
    BY <1>12, <1>14
  <2>2. Find(t, 0, sep) = NotFound
    BY <1>14, <1>15, <2>1, FindsNothing
  <2>3. Find(t, 0, sign) = NotFound
    BY <1>14, <1>15, <2>1, FindsNothing
  <2>4. Find(t, 0, dots) = NotFound
    BY <1>14, <1>15, <2>1, FindsNothing
  <2>. QED  BY <2>2, <2>3, <2>4
<1>17. Max({0, NotFound + 1}) = 0
  <2>1. NotFound + 1 = 0 /\ {0, 0} = {0} /\ 0 \in Int
    BY DEF NotFound
  <2>2. Max({0, 0}) = 0
    BY MaxOfTwo
  <2>. QED  BY <2>1, <2>2
<1>18. Find(t, 0, dash) = 0
  <2>1. 1 \in 1 .. Len(ca) /\ ca[1] = "/"
    BY <1>5, <1>6, <1>9, EmptySeq DEF HasPlainTail
  <2>2. ReadsAt(t, 0, ca)
    BY <1>5, <1>8 DEF TailAt
  <2>3. PICK m \in Nat, n \in Nat : m = Len(ca) /\ n = Len(t)
    BY <1>6, <1>15
  <2>4. n >= 1 /\ t[0 + 1] = "/"
    <3>1. 0 + m <= n /\ \A i \in 1 .. m : t[0 + i] = ca[i]
      BY <2>2, <2>3 DEF ReadsAt
    <3>. QED  BY <2>1, <2>3, <3>1
  <2>5. ReadsAt(t, 0, dash)
    <3>1. Len(dash) = 1 /\ \A i \in 1 .. 1 : i = 1
      BY <1>13
    <3>. QED  BY <1>14, <2>3, <2>4, <3>1 DEF ReadsAt
  <2>6. IsFirst(S, t, dash, 0, 0)
    BY <1>14, <1>15, <2>5 DEF IsFirst
  <2>. QED  BY <2>6, FindIs
<1>19. PICK query, hash : AreFinds(t, 0, query, hash)
  BY DEF AreFinds
<1>20. FirstFound(<<query, hash, Len(t)>>) = q
  <2>1. HasTail(S, t, c, 0, q, h)
    BY <1>8, <1>9, <1>15 DEF HasTail
  <2>2. PICK z : z = 0
    OBVIOUS
  <2>3. HasTail(S, t, c, z, q, h) /\ AreFinds(t, z, query, hash)
    BY <1>19, <2>1, <2>2
  <2>4. /\ FirstFound(<<query, hash, Len(t)>>) = q
        /\ query # NotFound <=> c["query"] # <<>>
        /\ query # NotFound => query = q /\ FirstFound(<<hash, Len(t)>>) = h
        /\ hash # NotFound <=> c["fragment"] # <<>>
        /\ hash # NotFound => hash = h
    BY <2>3, TailFinds
  <2>. QED  BY <2>4
<1>21. ParsedAt(t, base, NotFound, 0, NotFound, 0, NotFound, 0, 0, query, hash, u)
  <2>1. query = Find(t, 0, <<"?">>) /\ hash = Find(t, Max({0, query + 1}), <<"#">>)
    BY <1>19 DEF AreFinds
  <2>2. 0 # NotFound
    BY DEF NotFound
  <2>. QED  BY <1>1, <1>13, <1>16, <1>17, <1>18, <2>1, <2>2, Zenon DEF ParsedAt
<1>22. u.buf = t /\ u.base = base /\ u.part["path"] = View(base, 0, q)
  <2>1. PartsAre(t, base, NotFound, 0, NotFound, 0, NotFound, 0, 0, query, hash, u)
    BY <1>21, ParsedParts
  <2>2. 0 # NotFound
    BY DEF NotFound
  <2>. QED  BY <1>20, <2>1, <2>2, Zenon DEF PartsAre
<1>23. Shows(S, u, "path", 0, c["path"])
  <2>1. ReadsAt(t, 0, c["path"]) /\ q = 0 + Len(c["path"])
    BY <1>8 DEF TailAt
  <2>. QED  BY <1>2, <1>15, <1>22, <2>1, Zenon DEF Shows
<1>. QED  BY <1>23, ViewShows

-----------------------------------------------------------------------------
(* The endpoint of such a URL, and what becomes of it with another path.   *)

(* An address, a colon and a port: the colon that consume_endpoint looks   *)
(* for is the one before the port, if there is none in the port.           *)
IsEndpointText(S, w, x, y) ==
    /\ ":" \in S /\ x \in Seq(S) /\ y \in Seq(S) /\ w = x \o <<":">> \o y
    /\ HasNone(y, {":"})

LEMMA EndpointIs ==
    ASSUME NEW S, NEW w, NEW x, NEW y, IsEndpointText(S, w, x, y), ConsumeEndpoint(w) # <<>>
    PROVE  /\ ConsumeNumber(y, MaxPort) # <<>>
           /\ ConsumeEndpoint(w) = <<<<x, ConsumeNumber(y, MaxPort)[1]>>>>
<1>0. /\ ":" \in S /\ x \in Seq(S) /\ y \in Seq(S) /\ w = x \o <<":">> \o y
      /\ HasNone(y, {":"})
  BY DEF IsEndpointText
<1>1. PICK dots, z : dots = <<":">> /\ z = x \o dots
  OBVIOUS
<1>2. /\ dots \in Seq(S) /\ Len(dots) = 1 /\ dots[1] = ":" /\ z \in Seq(S) /\ w = z \o y
  <2>1. dots \in Seq(S) /\ Len(dots) = 1 /\ dots[1] = ":"
    BY <1>0, <1>1, OneElement
  <2>2. z \in Seq(S)
    BY <1>0, <1>1, <2>1, ConcatProperties
  <2>. QED  BY <1>0, <1>1, <2>1, <2>2
<1>3. PICK m \in Nat, k \in Nat : m = Len(x) /\ k = Len(y)
  BY <1>0
<1>4. Len(z) = m + 1 /\ w \in Seq(S) /\ Len(w) = m + 1 + k
  <2>1. Len(z) = m + 1
    BY <1>0, <1>1, <1>2, <1>3, ConcatProperties
  <2>. QED  BY <1>0, <1>2, <1>3, <2>1, ConcatProperties
<1>5. ReadsAt(w, 0, z) /\ ReadsAt(w, 0 + Len(z), y)
  <2>1. Joined(S, w, z, y)
    BY <1>0, <1>2 DEF Joined
  <2>2. ReadsAt(w, 0, w) /\ Len(w) \in Nat
    BY <1>4, ReadsItself
  <2>. QED  BY <2>1, <2>2, ReadsBoth
<1>6. ReadsAt(w, 0, x) /\ ReadsAt(w, 0 + Len(x), dots)
  <2>1. Joined(S, z, x, dots)
    BY <1>0, <1>1, <1>2 DEF Joined
  <2>2. Len(w) \in Nat
    BY <1>4
  <2>. QED  BY <1>5, <2>1, <2>2, ReadsBoth
<1>7. w[m + 1] = ":" /\ \A i \in 1 .. k : w[m + 1 + i] # ":"
  <2>1. ReadsAt(w, m, <<":">>) /\ ReadsAt(w, m + 1, y)
    BY <1>1, <1>3, <1>4, <1>5, <1>6
  <2>2. w[m + 1] = ":"
    BY <2>1, SymbolThere
  <2>3. ASSUME NEW i \in 1 .. k PROVE w[m + 1 + i] # ":"
    <3>1. y[i] \notin {":"}
      BY <1>0, <1>3, NoneOf
    <3>2. w[m + 1 + i] = y[i]
      BY <1>3, <2>1 DEF ReadsAt
    <3>. QED  BY <3>1, <3>2
  <2>. QED  BY <2>2, <2>3
<1>8. SelectLastInSeq(w, LAMBDA c : c = ":") = m + 1
  <2>. DEFINE I == {i \in 1 .. Len(w) : w[i] = ":"}
  <2>1. m + 1 \in I
    BY <1>4, <1>7
  <2>2. ASSUME NEW i \in I PROVE i <= m + 1
    <3>1. i \in 1 .. m + 1 + k /\ w[i] = ":"
      BY <1>4
    <3>2. CASE i > m + 1
      <4>1. i - (m + 1) \in 1 .. k /\ m + 1 + (i - (m + 1)) = i
        BY <3>1, <3>2
      <4>2. w[m + 1 + (i - (m + 1))] # ":"
        BY <1>7, <4>1
      <4>. QED  BY <3>1, <4>1, <4>2
    <3>. QED  BY <3>1, <3>2
  <2>0. PICK n \in Nat : n = m + 1 + k
    OBVIOUS
  <2>3. I \subseteq 0 .. n /\ I # {}
    BY <1>4, <2>0, <2>1
  <2>4. SelectLastInSeq(w, LAMBDA c : c = ":") = Max(I)
    BY <2>3 DEF SelectLastInSeq
  <2>. HIDE DEF I
  <2>5. Max(I) \in I /\ \A i \in I : Max(I) >= i
    BY <2>3, MaxIsIn
  <2>6. PICK e \in Int : e = Max(I)
    <3>1. Max(I) \in 0 .. n
      BY <2>3, <2>5
    <3>. QED  BY <2>0, <3>1
  <2>. QED  BY <2>1, <2>2, <2>4, <2>5, <2>6
<1>9. SubSeq(w, 1, (m + 1) - 1) = x
  <2>1. SubSeq(w, 0 + 1, 0 + Len(x)) = x
    BY <1>0, <1>4, <1>6, WhatIsRead
  <2>. QED  BY <1>3, <2>1
<1>10. SubSeq(w, m + 1 + 1, Len(w)) = y
  <2>1. SubSeq(w, (m + 1) + 1, (m + 1) + Len(y)) = y
    <3>1. ReadsAt(w, m + 1, y)
      BY <1>4, <1>5
    <3>. QED  BY <1>0, <1>4, <3>1, WhatIsRead
  <2>. QED  BY <1>3, <1>4, <2>1
<1>11. PICK colon, address, port :
          /\ colon = SelectLastInSeq(w, LAMBDA c : c = ":")
          /\ address = ParseAddress(SubSeq(w, 1, colon - 1))
          /\ port = ConsumeNumber(SubSeq(w, colon + 1, Len(w)), MaxPort)
          /\ ConsumeEndpoint(w) =
                IF colon = 0 \/ address = <<>> \/ port = <<>> THEN <<>> ELSE <<<<address[1], port[1]>>>>
  BY DEF ConsumeEndpoint
<1>12. address = ParseAddress(x) /\ port = ConsumeNumber(y, MaxPort)
  BY <1>8, <1>9, <1>10, <1>11
<1>13. address # <<>> /\ port # <<>> /\ ConsumeEndpoint(w) = <<<<address[1], port[1]>>>>
  BY <1>11
<1>14. address = <<x>>
  BY <1>12, <1>13 DEF ParseAddress
<1>. QED  BY <1>12, <1>13, <1>14

(* The buffer of a URL whose path has been replaced.                       *)
WithPath(u, path) ==
    SubSeq(u.buf, 1, Starts(u)["path"]) \o path
        \o SubSeq(u.buf, Starts(u)["path"] + Lengths(u)["path"] + 1, Len(u.buf))

LEMMA PrintedJoins ==
    ASSUME NEW S, Delims \subseteq S, NEW c \in [Parts -> Seq(S)]
    PROVE  Printed(c) = BeforePath(c) \o (c["path"] \o AfterPath(c))
<1>1. PICK bp \in Seq(S), ap \in Seq(S), ca \in Seq(S) :
         bp = BeforePath(c) /\ ap = AfterPath(c) /\ ca = c["path"]
  BY PrintedIs DEF Parts
<1>2. bp \o ca \o ap = bp \o (ca \o ap)
  BY Associative
<1>3. Printed(c) = bp \o ca \o ap
  BY <1>1, PrintedIs
<1>. QED  BY <1>1, <1>2, <1>3

LEMMA PathIsPrinted ==
    ASSUME NEW S, Delims \subseteq S, NEW c \in [Parts -> Seq(S)], NEW path \in Seq(S),
           NEW u, u.buf = Printed(c), Starts(u)["path"] = Len(BeforePath(c)),
           Lengths(u)["path"] = Len(c["path"])
    PROVE  WithPath(u, path) = Printed([c EXCEPT !["path"] = path])
<1>1. PICK bp, ap, ca : bp = BeforePath(c) /\ ap = AfterPath(c) /\ ca = c["path"]
  OBVIOUS
<1>2. PICK r, t : r = ca \o ap /\ t = bp \o r
  OBVIOUS
<1>3. bp \in Seq(S) /\ ap \in Seq(S) /\ ca \in Seq(S) /\ r \in Seq(S) /\ t \in Seq(S)
  <2>1. bp \in Seq(S) /\ ap \in Seq(S) /\ ca \in Seq(S)
    BY <1>1, PrintedIs DEF Parts
  <2>2. r \in Seq(S)
    BY <1>2, <2>1, ConcatProperties
  <2>. QED  BY <1>2, <2>1, <2>2, ConcatProperties
<1>4. t = u.buf
  BY <1>1, <1>2, PrintedJoins, Zenon
<1>5. ReadsAt(t, 0, bp) /\ ReadsAt(t, 0 + Len(bp), r) /\ Len(t) = Len(bp) + Len(r) /\ Len(t) \in Nat
  <2>1. Joined(S, t, bp, r)
    BY <1>2, <1>3 DEF Joined
  <2>2. ReadsAt(t, 0, t) /\ Len(t) \in Nat
    BY <1>3, ReadsItself
  <2>. QED  BY <2>1, <2>2, ReadsBoth
<1>6. ReadsAt(t, 0 + Len(bp) + Len(ca), ap) /\ Len(r) = Len(ca) + Len(ap)
  <2>1. Joined(S, r, ca, ap)
    BY <1>2, <1>3 DEF Joined
  <2>. QED  BY <1>5, <2>1, ReadsBoth
<1>7. PICK lb \in Nat, la \in Nat, lp \in Nat : lb = Len(bp) /\ la = Len(ca) /\ lp = Len(ap)
  BY <1>3
<1>8. SubSeq(t, 1, lb) = bp
  <2>1. SubSeq(t, 0 + 1, 0 + Len(bp)) = bp
    BY <1>3, <1>5, WhatIsRead
  <2>. QED  BY <1>7, <2>1
<1>9. SubSeq(t, lb + la + 1, Len(t)) = ap
  <2>1. ReadsAt(t, lb + la, ap)
    BY <1>6, <1>7
  <2>2. SubSeq(t, (lb + la) + 1, (lb + la) + Len(ap)) = ap
    BY <1>3, <2>1, WhatIsRead
  <2>3. (lb + la) + Len(ap) = Len(t)
    BY <1>5, <1>6, <1>7
  <2>. QED  BY <2>2, <2>3
<1>10. WithPath(u, path) = bp \o path \o ap
  <2>1. Starts(u)["path"] = lb /\ Lengths(u)["path"] = la
    BY <1>1, <1>7
  <2>. QED  BY <1>4, <1>8, <1>9, <2>1 DEF WithPath
<1>11. PICK d : d = [c EXCEPT !["path"] = path]
  OBVIOUS
<1>12. /\ d \in [Parts -> Seq(S)] /\ d["path"] = path
       /\ d["scheme"] = c["scheme"] /\ d["userinfo"] = c["userinfo"] /\ d["host"] = c["host"]
       /\ d["port"] = c["port"] /\ d["query"] = c["query"] /\ d["fragment"] = c["fragment"]
  BY <1>11 DEF Parts
<1>13. BeforePath(d) = BeforePath(c) /\ AfterPath(d) = AfterPath(c)
  BY <1>12, Zenon DEF BeforePath, AfterPath
<1>14. Printed(d) = BeforePath(d) \o d["path"] \o AfterPath(d)
  BY <1>12, PrintedIs
<1>. QED  BY <1>1, <1>10, <1>11, <1>12, <1>13, <1>14

-----------------------------------------------------------------------------
(* Lines: those of a text that is terminated, and of what follows it.      *)

LEMMA AreTexts ==
    ASSUME NEW T, NEW n \in Nat, NEW ss \in [1 .. n -> Seq(T)]
    PROVE  FlattenSeq(ss) \in Seq(T)
<1>1. ss \in Seq(Seq(T))
  OBVIOUS
<1>. QED  BY <1>1, FlattenElements

LEMMA LineIsText ==
    ASSUME NEW S, NEW text \in Seq(S), NEW i \in 1 .. Len(text)
    PROVE  LineBefore(text, i) \in Seq(S)
<1>. DEFINE I == {k \in 1 .. i - 1 : text[k] = "\n"}
<1>1. PICK j \in 0 .. i - 1 : LineBefore(text, i) = SubSeq(text, j + 1, i - 1)
  <2>1. CASE I = {}
    <3>1. LineBefore(text, i) = SubSeq(text, 0 + 1, i - 1)
      BY <2>1 DEF LineBefore, SelectLastInSubSeq
    <3>2. 0 \in 0 .. i - 1
      OBVIOUS
    <3>. QED  BY <3>1, <3>2
  <2>2. CASE I # {}
    <3>1. I \subseteq 0 .. i - 1 /\ i - 1 \in Nat
      OBVIOUS
    <3>2. LineBefore(text, i) = SubSeq(text, Max(I) + 1, i - 1)
      BY <2>2 DEF LineBefore, SelectLastInSubSeq
    <3>. HIDE DEF I
    <3>3. Max(I) \in 0 .. i - 1
      BY <2>2, <3>1, MaxIsIn
    <3>. QED  BY <3>2, <3>3
  <2>. QED  BY <2>1, <2>2
<1>2. j + 1 \in Nat \ {0} /\ i - 1 \in Int /\ i - 1 <= Len(text)
  OBVIOUS
<1>. QED  BY <1>1, <1>2, SubSeqIsIn

LEMMA LinesAreTexts ==
    ASSUME NEW S, NEW text \in Seq(S)
    PROVE  LinesOf(text) \in Seq(Seq(S))
<1>1. PICK T : T = Seq(S)
  OBVIOUS
<1>. DEFINE ss == [i \in DOMAIN text |-> IF text[i] = "\n" THEN <<LineBefore(text, i)>> ELSE <<>>]
<1>2. PICK n \in Nat : n = Len(text) /\ DOMAIN text = 1 .. n
  OBVIOUS
<1>3. ASSUME NEW i \in 1 .. n PROVE ss[i] \in Seq(T)
  <2>1. LineBefore(text, i) \in T
    BY <1>1, <1>2, <1>3, LineIsText
  <2>. QED  BY <1>2, <2>1
<1>4. ss \in [1 .. n -> Seq(T)]
  BY <1>2, <1>3
<1>5. FlattenSeq(ss) \in Seq(T)
  <2>. HIDE DEF ss
  <2>. QED  BY <1>4, AreTexts
<1>. QED  BY <1>1, <1>5 DEF LinesOf

(* The line that ends at i begins after j.                                 *)
BeginsAfter(t, i, j) ==
    /\ j \in 0 .. i - 1 /\ (j = 0 \/ t[j] = "\n")
    /\ \A k \in j + 1 .. i - 1 : t[k] # "\n"

LEMMA LineBegins ==
    ASSUME NEW t, NEW i \in Nat \ {0}
    PROVE  \E j : BeginsAfter(t, i, j) /\ LineBefore(t, i) = SubSeq(t, j + 1, i - 1)
<1>. DEFINE I == {k \in 1 .. i - 1 : t[k] = "\n"}
<1>1. CASE I = {}
  <2>1. LineBefore(t, i) = SubSeq(t, 0 + 1, i - 1)
    BY <1>1 DEF LineBefore, SelectLastInSubSeq
  <2>2. \A k \in 0 + 1 .. i - 1 : t[k] # "\n"
    BY <1>1
  <2>3. 0 \in 0 .. i - 1
    OBVIOUS
  <2>. QED  BY <2>1, <2>2, <2>3 DEF BeginsAfter
<1>2. CASE I # {}
  <2>1. I \subseteq 0 .. i - 1 /\ i - 1 \in Nat
    OBVIOUS
  <2>2. LineBefore(t, i) = SubSeq(t, Max(I) + 1, i - 1)
    BY <1>2 DEF LineBefore, SelectLastInSubSeq
  <2>3. \A k \in I : k \in 1 .. i - 1 /\ t[k] = "\n"
    OBVIOUS
  <2>4. \A k \in 1 .. i - 1 : t[k] = "\n" => k \in I
    OBVIOUS
  <2>. HIDE DEF I
  <2>5. PICK j : j = Max(I) /\ j \in I /\ \A k \in I : j >= k
    BY <1>2, <2>1, MaxIsIn
  <2>6. j \in 1 .. i - 1 /\ t[j] = "\n"
    BY <2>3, <2>5
  <2>7. ASSUME NEW k \in j + 1 .. i - 1 PROVE t[k] # "\n"
    <3>1. k \in 1 .. i - 1 /\ ~(j >= k)
      BY <2>6
    <3>. QED  BY <2>4, <2>5, <3>1
  <2>8. BeginsAfter(t, i, j)
    BY <2>6, <2>7 DEF BeginsAfter
  <2>9. LineBefore(t, i) = SubSeq(t, j + 1, i - 1)
    BY <2>2, <2>5
  <2>. QED  BY <2>8, <2>9
<1>. QED  BY <1>1, <1>2

LEMMA LineIs ==
    ASSUME NEW t, NEW i \in Nat \ {0}, NEW j, BeginsAfter(t, i, j)
    PROVE  LineBefore(t, i) = SubSeq(t, j + 1, i - 1)
<1>1. PICK k : BeginsAfter(t, i, k) /\ LineBefore(t, i) = SubSeq(t, k + 1, i - 1)
  BY LineBegins
<1>2. j = k
  <2>1. /\ j \in 0 .. i - 1 /\ k \in 0 .. i - 1 /\ (j = 0 \/ t[j] = "\n") /\ (k = 0 \/ t[k] = "\n")
        /\ \A l \in j + 1 .. i - 1 : t[l] # "\n"
        /\ \A l \in k + 1 .. i - 1 : t[l] # "\n"
    BY <1>1 DEF BeginsAfter
  <2>2. ~(j < k)
    <3>. SUFFICES ASSUME j < k PROVE FALSE
      OBVIOUS
    <3>1. k \in j + 1 .. i - 1 /\ k # 0
      BY <2>1
    <3>. QED  BY <2>1, <3>1
  <2>3. ~(k < j)
    <3>. SUFFICES ASSUME k < j PROVE FALSE
      OBVIOUS
    <3>1. j \in k + 1 .. i - 1 /\ j # 0
      BY <2>1
    <3>. QED  BY <2>1, <3>1
  <2>. QED  BY <2>1, <2>2, <2>3
<1>. QED  BY <1>1, <1>2

(* The optional lines of LinesOf.                                          *)
LineEnds(t) == [i \in DOMAIN t |-> IF t[i] = "\n" THEN <<LineBefore(t, i)>> ELSE <<>>]

LEMMA LineEndsAreLines ==
    ASSUME NEW S, NEW t \in Seq(S)
    PROVE  /\ LineEnds(t) \in Seq(Seq(Seq(S))) /\ Len(LineEnds(t)) = Len(t)
           /\ LinesOf(t) = FlattenSeq(LineEnds(t))
           /\ \A i \in 1 .. Len(t) :
                 /\ t[i] = "\n" => LineEnds(t)[i] = <<LineBefore(t, i)>>
                 /\ t[i] # "\n" => LineEnds(t)[i] = <<>>
                 /\ LineEnds(t)[i] \in Seq(Seq(S))
<1>1. PICK T : T = Seq(S)
  OBVIOUS
<1>2. PICK n \in Nat : n = Len(t) /\ DOMAIN t = 1 .. n
  OBVIOUS
<1>3. PICK ss : ss = LineEnds(t)
  OBVIOUS
<1>4. ss = [i \in 1 .. n |-> IF t[i] = "\n" THEN <<LineBefore(t, i)>> ELSE <<>>]
  BY <1>2, <1>3 DEF LineEnds
<1>5. ASSUME NEW i \in 1 .. n
      PROVE  /\ t[i] = "\n" => ss[i] = <<LineBefore(t, i)>>
             /\ t[i] # "\n" => ss[i] = <<>>
             /\ ss[i] \in Seq(T)
  <2>1. LineBefore(t, i) \in T
    BY <1>1, <1>2, LineIsText
  <2>2. ss[i] = IF t[i] = "\n" THEN <<LineBefore(t, i)>> ELSE <<>>
    BY <1>4
  <2>3. <<>> \in Seq(T) /\ <<LineBefore(t, i)>> \in Seq(T)
    BY <2>1, OneElement, EmptySeq
  <2>. QED  BY <2>2, <2>3
<1>6. ss \in Seq(Seq(T)) /\ Len(ss) = n
  BY <1>4, <1>5
<1>7. LinesOf(t) = FlattenSeq(ss)
  BY <1>3, Zenon DEF LinesOf, LineEnds
<1>. QED  BY <1>1, <1>2, <1>3, <1>5, <1>6, <1>7

(* What ends with a line end, or is nothing.                               *)
IsTerminated(t) == t = <<>> \/ t[Len(t)] = "\n"

(* Lines can be found piece by piece.                                      *)
LEMMA LinesOfBoth ==
    ASSUME NEW S, NEW x, NEW y, NEW z, Joined(S, z, x, y), IsTerminated(x)
    PROVE  AreJoined(LinesOf(z), LinesOf(x), LinesOf(y)) /\ LinesOf(y) \in Seq(Seq(S))
<1>0. x \in Seq(S) /\ y \in Seq(S) /\ z = x \o y
  BY DEF Joined
<1>1. PICK m \in Nat, n \in Nat : m = Len(x) /\ n = Len(y)
  BY <1>0
<1>2. /\ z \in Seq(S) /\ Len(z) = m + n
      /\ \A i \in 1 .. m : z[i] = x[i]
      /\ \A i \in 1 .. n : z[m + i] = y[i]
  <2>1. /\ x \o y \in Seq(S) /\ Len(x \o y) = Len(x) + Len(y)
        /\ \A i \in 1 .. Len(x) + Len(y) :
              (x \o y)[i] = IF i <= Len(x) THEN x[i] ELSE y[i - Len(x)]
    BY <1>0, ConcatProperties
  <2>2. \A i \in 1 .. m + n : z[i] = IF i <= m THEN x[i] ELSE y[i - m]
    BY <1>0, <1>1, <2>1
  <2>3. ASSUME NEW i \in 1 .. m PROVE z[i] = x[i]
    BY <2>2
  <2>4. ASSUME NEW i \in 1 .. n PROVE z[m + i] = y[i]
    <3>1. m + i \in 1 .. m + n /\ ~(m + i <= m) /\ (m + i) - m = i
      OBVIOUS
    <3>. QED  BY <2>2, <3>1
  <2>. QED  BY <1>0, <1>1, <2>1, <2>3, <2>4
<1>3. m = 0 \/ z[m] = "\n"
  <2>1. m # 0 => m \in 1 .. m
    OBVIOUS
  <2>2. m = 0 \/ x[m] = "\n"
    BY <1>1 DEF IsTerminated
  <2>. QED  BY <1>2, <2>1, <2>2
<1>4. ASSUME NEW i \in 1 .. m PROVE LineBefore(z, i) = LineBefore(x, i)
  <2>1. PICK j : BeginsAfter(x, i, j) /\ LineBefore(x, i) = SubSeq(x, j + 1, i - 1)
    BY LineBegins
  <2>2. /\ j \in 0 .. i - 1 /\ (j = 0 \/ x[j] = "\n")
        /\ \A k \in j + 1 .. i - 1 : x[k] # "\n"
    BY <2>1 DEF BeginsAfter
  <2>3. BeginsAfter(z, i, j)
    <3>1. \A k \in j + 1 .. i - 1 : k \in 1 .. m
      BY <2>2
    <3>2. j = 0 \/ j \in 1 .. m
      BY <2>2
    <3>. QED  BY <1>2, <2>2, <3>1, <3>2 DEF BeginsAfter
  <2>4. LineBefore(z, i) = SubSeq(z, j + 1, i - 1)
    BY <2>3, LineIs
  <2>5. SubSeq(z, 0 + (j + 1), 0 + (i - 1)) = SubSeq(x, j + 1, i - 1)
    <3>1. SamePiece(S, z, x, 0, j + 1, i - 1)
      <4>1. /\ j + 1 \in Nat \ {0} /\ i - 1 \in Int /\ i - 1 <= m /\ 0 + (i - 1) <= m + n
            /\ \A k \in j + 1 .. i - 1 : k \in 1 .. m /\ 0 + k = k
        BY <2>2
      <4>. QED  BY <1>0, <1>1, <1>2, <4>1 DEF SamePiece
    <3>2. PICK v, w : v = SubSeq(z, 0 + (j + 1), 0 + (i - 1)) /\ w = SubSeq(x, j + 1, i - 1)
      OBVIOUS
    <3>3. IsPiece(v, z, 0 + (j + 1), 0 + (i - 1)) /\ IsPiece(w, x, j + 1, i - 1)
      BY <3>2 DEF IsPiece
    <3>4. v = w
      BY <3>1, <3>3, EqualPieces
    <3>. QED  BY <3>2, <3>4
  <2>6. 0 + (j + 1) = j + 1 /\ 0 + (i - 1) = i - 1
    BY <2>2
  <2>. QED  BY <2>1, <2>4, <2>5, <2>6
<1>5. ASSUME NEW i \in 1 .. n PROVE LineBefore(z, m + i) = LineBefore(y, i)
  <2>1. PICK j : BeginsAfter(y, i, j) /\ LineBefore(y, i) = SubSeq(y, j + 1, i - 1)
    BY LineBegins
  <2>2. /\ j \in 0 .. i - 1 /\ (j = 0 \/ y[j] = "\n")
        /\ \A k \in j + 1 .. i - 1 : y[k] # "\n"
    BY <2>1 DEF BeginsAfter
  <2>3. BeginsAfter(z, m + i, m + j)
    <3>1. m + j \in 0 .. (m + i) - 1
      BY <2>2
    <3>2. m + j = 0 \/ z[m + j] = "\n"
      <4>1. CASE j = 0
        BY <1>3, <4>1
      <4>2. CASE j # 0
        <5>1. j \in 1 .. n /\ y[j] = "\n"
          BY <2>2, <4>2
        <5>. QED  BY <1>2, <5>1
      <4>. QED  BY <4>1, <4>2
    <3>3. ASSUME NEW k \in m + j + 1 .. (m + i) - 1 PROVE z[k] # "\n"
      <4>1. PICK l : l = k - m /\ l \in j + 1 .. i - 1 /\ l \in 1 .. n /\ m + l = k
        <5>1. k - m \in j + 1 .. i - 1 /\ k - m \in 1 .. n /\ m + (k - m) = k
          BY <2>2
        <5>. QED  BY <5>1
      <4>. QED  BY <1>2, <2>2, <4>1
    <3>. QED  BY <3>1, <3>2, <3>3 DEF BeginsAfter
  <2>4. LineBefore(z, m + i) = SubSeq(z, m + j + 1, (m + i) - 1)
    <3>1. m + i \in Nat \ {0}
      OBVIOUS
    <3>. QED  BY <2>3, <3>1, LineIs
  <2>5. SubSeq(z, m + (j + 1), m + (i - 1)) = SubSeq(y, j + 1, i - 1)
    <3>1. SamePiece(S, z, y, m, j + 1, i - 1)
      <4>1. /\ j + 1 \in Nat \ {0} /\ i - 1 \in Int /\ i - 1 <= n /\ m + (i - 1) <= m + n
            /\ \A k \in j + 1 .. i - 1 : k \in 1 .. n
        BY <2>2
      <4>. QED  BY <1>0, <1>1, <1>2, <4>1 DEF SamePiece
    <3>2. PICK v, w : v = SubSeq(z, m + (j + 1), m + (i - 1)) /\ w = SubSeq(y, j + 1, i - 1)
      OBVIOUS
    <3>3. IsPiece(v, z, m + (j + 1), m + (i - 1)) /\ IsPiece(w, y, j + 1, i - 1)
      BY <3>2 DEF IsPiece
    <3>4. v = w
      BY <3>1, <3>3, EqualPieces
    <3>. QED  BY <3>2, <3>4
  <2>6. m + (j + 1) = m + j + 1 /\ m + (i - 1) = (m + i) - 1
    BY <2>2
  <2>. QED  BY <2>1, <2>4, <2>5, <2>6
<1>6. PICK T : T = Seq(S)
  OBVIOUS
<1>7. PICK ex, ey, ez : ex = LineEnds(x) /\ ey = LineEnds(y) /\ ez = LineEnds(z)
  OBVIOUS
<1>8. /\ ex \in Seq(Seq(T)) /\ Len(ex) = m /\ LinesOf(x) = FlattenSeq(ex)
      /\ \A i \in 1 .. m : /\ x[i] = "\n" => ex[i] = <<LineBefore(x, i)>>
                           /\ x[i] # "\n" => ex[i] = <<>>
  BY <1>0, <1>1, <1>6, <1>7, LineEndsAreLines
<1>9. /\ ey \in Seq(Seq(T)) /\ Len(ey) = n /\ LinesOf(y) = FlattenSeq(ey)
      /\ \A i \in 1 .. n : /\ y[i] = "\n" => ey[i] = <<LineBefore(y, i)>>
                           /\ y[i] # "\n" => ey[i] = <<>>
  BY <1>0, <1>1, <1>6, <1>7, LineEndsAreLines
<1>10. /\ ez \in Seq(Seq(T)) /\ Len(ez) = m + n /\ LinesOf(z) = FlattenSeq(ez)
       /\ \A i \in 1 .. m + n : /\ z[i] = "\n" => ez[i] = <<LineBefore(z, i)>>
                                /\ z[i] # "\n" => ez[i] = <<>>
  BY <1>2, <1>6, <1>7, LineEndsAreLines
<1>11. ez = ex \o ey
  <2>1. PICK U : U = Seq(T)
    OBVIOUS
  <2>2. ex \in Seq(U) /\ ey \in Seq(U) /\ ez \in Seq(U) /\ Len(ex) = m /\ Len(ey) = n /\ Len(ez) = m + n
    BY <1>8, <1>9, <1>10, <2>1
  <2>3. PICK e : e = ex \o ey
    OBVIOUS
  <2>4. /\ e \in Seq(U) /\ Len(e) = m + n
        /\ \A i \in 1 .. m + n : e[i] = IF i <= m THEN ex[i] ELSE ey[i - m]
    <3>1. /\ ex \o ey \in Seq(U) /\ Len(ex \o ey) = Len(ex) + Len(ey)
          /\ \A i \in 1 .. Len(ex) + Len(ey) :
                (ex \o ey)[i] = IF i <= Len(ex) THEN ex[i] ELSE ey[i - Len(ex)]
      BY <2>2, ConcatProperties
    <3>. QED  BY <2>2, <2>3, <3>1
  <2>5. ASSUME NEW i \in 1 .. m + n PROVE ez[i] = e[i]
    <3>1. CASE i <= m
      <4>1. i \in 1 .. m /\ e[i] = ex[i] /\ z[i] = x[i] /\ LineBefore(z, i) = LineBefore(x, i)
        BY <1>2, <1>4, <2>4, <3>1
      <4>. QED  BY <1>8, <1>10, <4>1
    <3>2. CASE ~(i <= m)
      <4>1. PICK k \in 1 .. n : k = i - m /\ m + k = i
        <5>1. i - m \in 1 .. n /\ m + (i - m) = i
          BY <3>2
        <5>. QED  BY <5>1
      <4>2. e[i] = ey[k] /\ z[i] = y[k] /\ LineBefore(z, i) = LineBefore(y, k)
        <5>1. z[m + k] = y[k] /\ LineBefore(z, m + k) = LineBefore(y, k)
          BY <1>2, <1>5
        <5>. QED  BY <2>4, <3>2, <4>1, <5>1
      <4>. QED  BY <1>9, <1>10, <4>1, <4>2
    <3>. QED  BY <3>1, <3>2
  <2>6. ez = e
    BY <2>2, <2>4, <2>5, SeqEqual
  <2>. QED  BY <2>3, <2>6
<1>12. FlattenSeq(ex \o ey) = FlattenSeq(ex) \o FlattenSeq(ey)
  BY <1>8, <1>9, FlattenConcat
<1>13. LinesOf(y) \in Seq(Seq(S))
  BY <1>0, LinesAreTexts
<1>. QED  BY <1>8, <1>9, <1>10, <1>11, <1>12, <1>13 DEF AreJoined

LEMMA NoLines ==
    ASSUME NEW S, NEW t \in Seq(S), \A i \in 1 .. Len(t) : t[i] # "\n"
    PROVE  LinesOf(t) = <<>>
<1>0. PICK n \in Nat : n = Len(t)
  OBVIOUS
<1>1. PICK T, ss : T = Seq(S) /\ ss = LineEnds(t)
  OBVIOUS
<1>2. /\ ss \in Seq(Seq(T)) /\ Len(ss) = n /\ LinesOf(t) = FlattenSeq(ss)
      /\ \A i \in 1 .. n : t[i] # "\n" => ss[i] = <<>>
  BY <1>0, <1>1, LineEndsAreLines
<1>3. \A i \in 1 .. n : Len(ss[i]) = 0
  BY <1>0, <1>2
<1>4. PICK x : x = FlattenSeq(ss)
  OBVIOUS
<1>5. /\ x \in Seq(T)
      /\ \A j \in 1 .. Len(x) : \E i \in 1 .. n : \E k \in 1 .. Len(ss[i]) : x[j] = ss[i][k]
  <2>1. ss \in Seq(Seq(T))
    BY <1>2
  <2>2. /\ FlattenSeq(ss) \in Seq(T)
        /\ \A j \in 1 .. Len(FlattenSeq(ss)) :
              \E i \in 1 .. Len(ss) : \E k \in 1 .. Len(ss[i]) : FlattenSeq(ss)[j] = ss[i][k]
    BY <2>1, FlattenElements
  <2>. QED  BY <1>2, <1>4, <2>2
<1>6. \A j \in 1 .. Len(x) : FALSE
  BY <1>3, <1>5
<1>7. x = <<>>
  <2>1. Len(x) \in Nat
    BY <1>5
  <2>2. Len(x) = 0
    BY <1>6, <2>1
  <2>. QED  BY <1>5, <2>2, EmptySeq
<1>. QED  BY <1>2, <1>4, <1>7

(* A text with one line end, at its end.                                   *)
LEMMA OneLine ==
    ASSUME NEW S, NEW y, NEW end, NEW t, Joined(S, t, y, end), end = <<"\n">>,
           \A i \in 1 .. Len(y) : y[i] # "\n"
    PROVE  LinesOf(t) = <<y>> /\ IsTerminated(t)
<1>0. y \in Seq(S) /\ end \in Seq(S) /\ t = y \o end /\ Len(end) = 1 /\ end[1] = "\n"
  BY DEF Joined
<1>1. PICK m \in Nat : m = Len(y)
  BY <1>0
<1>2. /\ t \in Seq(S) /\ Len(t) = m + 1 /\ t[m + 1] = "\n"
      /\ \A i \in 1 .. m : t[i] = y[i]
  <2>1. /\ y \o end \in Seq(S) /\ Len(y \o end) = Len(y) + Len(end)
        /\ \A i \in 1 .. Len(y) + Len(end) :
              (y \o end)[i] = IF i <= Len(y) THEN y[i] ELSE end[i - Len(y)]
    BY <1>0, ConcatProperties
  <2>2. \A i \in 1 .. m + 1 : t[i] = IF i <= m THEN y[i] ELSE end[i - m]
    BY <1>0, <1>1, <2>1
  <2>3. m + 1 \in 1 .. m + 1 /\ ~(m + 1 <= m) /\ (m + 1) - m = 1
    OBVIOUS
  <2>4. t[m + 1] = end[1]
    BY <2>2, <2>3
  <2>5. ASSUME NEW i \in 1 .. m PROVE t[i] = y[i]
    BY <2>2
  <2>. QED  BY <1>0, <1>1, <2>1, <2>4, <2>5
<1>3. LineBefore(t, m + 1) = y
  <2>1. BeginsAfter(t, m + 1, 0)
    <3>1. 0 \in 0 .. (m + 1) - 1
      OBVIOUS
    <3>2. ASSUME NEW k \in 0 + 1 .. (m + 1) - 1 PROVE t[k] # "\n"
      <4>1. k \in 1 .. m
        OBVIOUS
      <4>. QED  BY <1>1, <1>2, <4>1
    <3>. QED  BY <3>1, <3>2 DEF BeginsAfter
  <2>2. LineBefore(t, m + 1) = SubSeq(t, 0 + 1, (m + 1) - 1)
    <3>1. m + 1 \in Nat \ {0}
      OBVIOUS
    <3>. QED  BY <2>1, <3>1, LineIs
  <2>3. ReadsAt(t, 0, y)
    <3>1. \A i \in 1 .. m : 0 + i = i
      OBVIOUS
    <3>. QED  BY <1>1, <1>2, <3>1 DEF ReadsAt
  <2>4. SubSeq(t, 0 + 1, 0 + Len(y)) = y
    BY <1>0, <1>2, <2>3, WhatIsRead
  <2>5. 0 + Len(y) = (m + 1) - 1
    BY <1>1
  <2>. QED  BY <2>2, <2>4, <2>5
<1>4. PICK T, ss : T = Seq(S) /\ ss = LineEnds(t)
  OBVIOUS
<1>5. /\ ss \in Seq(Seq(T)) /\ Len(ss) = m + 1 /\ LinesOf(t) = FlattenSeq(ss)
      /\ \A i \in 1 .. m + 1 : /\ t[i] = "\n" => ss[i] = <<LineBefore(t, i)>>
                               /\ t[i] # "\n" => ss[i] = <<>>
  BY <1>2, <1>4, LineEndsAreLines
<1>6. /\ \A i \in 1 .. m : ss[i] = <<>>
      /\ ss[m + 1] = <<y>>
  <2>1. ASSUME NEW i \in 1 .. m PROVE ss[i] = <<>>
    <3>1. i \in 1 .. m + 1 /\ t[i] # "\n"
      BY <1>1, <1>2
    <3>. QED  BY <1>5, <3>1
  <2>2. m + 1 \in 1 .. m + 1
    OBVIOUS
  <2>. QED  BY <1>2, <1>3, <1>5, <2>1, <2>2
<1>7. PICK x, e : x = FlattenSeq(ss) /\ x \in Seq(T) /\ ComeFrom(e, x, ss, m + 1)
  <2>1. \A i \in 1 .. Len(ss) : Len(ss[i]) <= 1
    <3>1. \A i \in 1 .. m + 1 : ss[i] = <<>> \/ ss[i] = <<y>>
      <4>1. \A i \in 1 .. m + 1 : i \in 1 .. m \/ i = m + 1
        OBVIOUS
      <4>. QED  BY <1>6, <4>1
    <3>2. Len(<<>>) <= 1 /\ Len(<<y>>) <= 1
      BY OneElement
    <3>. QED  BY <1>5, <3>1, <3>2
  <2>2. FlattenSeq(ss) \in Seq(T) /\ \E e : ComeFrom(e, FlattenSeq(ss), ss, Len(ss))
    BY <1>5, <2>1, FlattenOptions
  <2>. QED  BY <1>5, <2>2
<1>8. /\ e \in [1 .. Len(x) -> 1 .. m + 1]
      /\ \A j \in 1 .. Len(x) : ss[e[j]] = <<x[j]>>
      /\ \A j, k \in 1 .. Len(x) : j < k => e[j] < e[k]
      /\ \A i \in 1 .. m + 1 : ss[i] # <<>> => \E j \in 1 .. Len(x) : e[j] = i
  BY <1>7 DEF ComeFrom
<1>9. ASSUME NEW j \in 1 .. Len(x) PROVE e[j] = m + 1 /\ x[j] = y
  <2>1. e[j] \in 1 .. m + 1 /\ ss[e[j]] = <<x[j]>>
    BY <1>8
  <2>2. ss[e[j]] # <<>>
    BY <2>1
  <2>3. ~(e[j] \in 1 .. m)
    BY <1>6, <2>2
  <2>4. e[j] = m + 1
    BY <2>1, <2>3
  <2>. QED  BY <1>6, <2>1, <2>4
<1>10. PICK n \in Nat : n = Len(x)
  BY <1>7
<1>11. n = 1
  <2>1. ~(n >= 2)
    <3>. SUFFICES ASSUME n >= 2 PROVE FALSE
      OBVIOUS
    <3>1. 1 \in 1 .. n /\ 2 \in 1 .. n /\ 1 < 2
      OBVIOUS
    <3>2. e[1] < e[2] /\ e[1] = m + 1 /\ e[2] = m + 1
      BY <1>8, <1>9, <1>10, <3>1
    <3>. QED  BY <3>2
  <2>2. n # 0
    <3>1. m + 1 \in 1 .. m + 1 /\ ss[m + 1] # <<>>
      BY <1>6
    <3>2. \E j \in 1 .. n : e[j] = m + 1
      BY <1>8, <1>10, <3>1
    <3>. QED  BY <3>2
  <2>. QED  BY <2>1, <2>2
<1>12. x = <<y>>
  <2>1. x \in Seq(T) /\ Len(x) = 1 /\ x[1] = y /\ y \in T
    BY <1>0, <1>4, <1>7, <1>9, <1>10, <1>11
  <2>. QED  BY <2>1, IsOne
<1>13. IsTerminated(t)
  BY <1>2 DEF IsTerminated
<1>. QED  BY <1>5, <1>7, <1>12, <1>13

-----------------------------------------------------------------------------
(* The lines of a text that has been cut.                                  *)

(* u is the line y and its end.                                            *)
IsLine(S, u, y) ==
    Joined(S, u, y, <<"\n">>) /\ \A i \in 1 .. Len(y) : y[i] # "\n"

LEMMA LineElements ==
    ASSUME NEW S, NEW u, NEW y, IsLine(S, u, y)
    PROVE  /\ y \in Seq(S) /\ u \in Seq(S) /\ Len(u) = Len(y) + 1 /\ u[Len(y) + 1] = "\n"
           /\ \A i \in 1 .. Len(y) : u[i] = y[i] /\ u[i] # "\n"
<1>1. PICK end : end = <<"\n">> /\ Len(end) = 1 /\ end[1] = "\n"
  <2>1. PICK e, E : e = "\n" /\ E = {e}
    OBVIOUS
  <2>2. <<e>> \in Seq(E) /\ Len(<<e>>) = 1 /\ <<e>>[1] = e
    BY <2>1, OneElement
  <2>. QED  BY <2>1, <2>2
<1>2. Joined(S, u, y, end) /\ \A i \in 1 .. Len(y) : y[i] # "\n"
  BY <1>1 DEF IsLine
<1>3. /\ y \in Seq(S) /\ end \in Seq(S) /\ u \in Seq(S) /\ Len(u) = Len(y) + Len(end)
      /\ \A i \in 1 .. Len(y) : u[i] = y[i]
      /\ \A i \in 1 .. Len(end) : u[Len(y) + i] = end[i]
  BY <1>2, JoinedElements
<1>4. 1 \in 1 .. Len(end)
  BY <1>1
<1>. QED  BY <1>1, <1>2, <1>3, <1>4

LEMMA CutOfLine ==
    ASSUME NEW S, NEW u, NEW y, IsLine(S, u, y), NEW w, IsCut(S, w, u)
    PROVE  w = u \/ (w \in Seq(S) /\ \A i \in 1 .. Len(w) : w[i] # "\n")
<1>1. /\ y \in Seq(S) /\ u \in Seq(S) /\ Len(u) = Len(y) + 1
      /\ \A i \in 1 .. Len(y) : u[i] = y[i] /\ u[i] # "\n"
  BY LineElements
<1>2. PICK k \in Nat, m \in Nat : k = Len(w) /\ m = Len(y)
  BY <1>1 DEF IsCut
<1>3. w \in Seq(S) /\ k <= m + 1 /\ \A i \in 1 .. k : w[i] = u[i]
  BY <1>1, <1>2 DEF IsCut
<1>4. CASE k = m + 1
  BY <1>1, <1>2, <1>4, CutOfWhole
<1>5. CASE k # m + 1
  <2>1. \A i \in 1 .. k : i \in 1 .. m
    BY <1>3, <1>5
  <2>. QED  BY <1>1, <1>2, <1>3, <2>1
<1>. QED  BY <1>4, <1>5

(* The lines of t are ls, and those of what is left of t the first of ls.  *)
IsLined(S, t, ls) ==
    /\ t \in Seq(S) /\ IsTerminated(t) /\ LinesOf(t) = ls
    /\ \A v : IsCut(S, v, t) => IsCut(Seq(S), LinesOf(v), ls)

LEMMA LinedNothing ==
    ASSUME NEW S
    PROVE  IsLined(S, <<>>, <<>>)
<1>1. PICK nil : nil = <<>> /\ nil \in Seq(S) /\ nil \in Seq(Seq(S)) /\ Len(nil) = 0
  BY EmptySeq
<1>2. LinesOf(nil) = nil
  <2>1. \A i \in 1 .. Len(nil) : nil[i] # "\n"
    BY <1>1
  <2>. QED  BY <1>1, <2>1, NoLines
<1>3. ASSUME NEW v, IsCut(S, v, nil) PROVE IsCut(Seq(S), LinesOf(v), nil)
  <2>1. v \in Seq(S) /\ Len(v) = 0
    BY <1>1, <1>3 DEF IsCut
  <2>2. v = nil
    BY <1>1, <2>1, EmptySeq
  <2>3. PICK l : l = LinesOf(v)
    OBVIOUS
  <2>4. l = nil
    BY <1>2, <2>2, <2>3
  <2>5. IsCut(Seq(S), l, nil)
    BY <1>1, <2>4 DEF IsCut
  <2>. QED  BY <2>3, <2>5
<1>. QED  BY <1>1, <1>2, <1>3 DEF IsLined, IsTerminated

LEMMA LinedNext ==
    ASSUME NEW S, NEW t, NEW ls, IsLined(S, t, ls), NEW u, NEW y, IsLine(S, u, y),
           NEW z, Joined(S, z, t, u), NEW all, Joined(Seq(S), all, ls, <<y>>)
    PROVE  IsLined(S, z, all)
<1>1. PICK T : T = Seq(S)
  OBVIOUS
<1>2. /\ t \in Seq(S) /\ IsTerminated(t) /\ LinesOf(t) = ls
      /\ \A v : IsCut(S, v, t) => IsCut(T, LinesOf(v), ls)
  BY <1>1 DEF IsLined
<1>3. PICK one : one = <<y>>
  OBVIOUS
<1>4. Joined(T, all, ls, one) /\ all = ls \o one
  BY <1>1, <1>3 DEF Joined
<1>5. LinesOf(u) = one /\ IsTerminated(u)
  <2>1. PICK end : end = <<"\n">>
    OBVIOUS
  <2>2. Joined(S, u, y, end) /\ \A i \in 1 .. Len(y) : y[i] # "\n"
    BY <2>1 DEF IsLine
  <2>. QED  BY <1>3, <2>1, <2>2, OneLine
<1>6. LinesOf(z) = all
  <2>1. AreJoined(LinesOf(z), LinesOf(t), LinesOf(u))
    BY <1>2, LinesOfBoth
  <2>. QED  BY <1>2, <1>4, <1>5, <2>1 DEF AreJoined
<1>7. z \in Seq(S) /\ IsTerminated(z)
  <2>1. /\ t \in Seq(S) /\ u \in Seq(S) /\ z \in Seq(S) /\ Len(z) = Len(t) + Len(u)
        /\ \A i \in 1 .. Len(u) : z[Len(t) + i] = u[i]
    BY JoinedElements
  <2>2. y \in Seq(S) /\ Len(u) = Len(y) + 1 /\ u[Len(y) + 1] = "\n"
    BY LineElements
  <2>3. PICK m \in Nat : m = Len(u) /\ m # 0 /\ u[m] = "\n"
    BY <2>2
  <2>4. m \in 1 .. m
    BY <2>3
  <2>5. z[Len(z)] = "\n"
    BY <2>1, <2>3, <2>4
  <2>. QED  BY <2>1, <2>5 DEF IsTerminated
<1>8. IsCut(T, ls, all)
  BY <1>4, FrontIsCut
<1>9. ASSUME NEW v, IsCut(S, v, z) PROVE IsCut(T, LinesOf(v), all)
  <2>1. CASE IsCut(S, v, t)
    <3>1. PICK l : l = LinesOf(v) /\ IsCut(T, l, ls)
      BY <1>2, <2>1
    <3>. QED  BY <1>8, <3>1, CutOfCut
  <2>2. CASE \E w : Joined(S, v, t, w) /\ IsCut(S, w, u)
    <3>1. PICK w : Joined(S, v, t, w) /\ IsCut(S, w, u)
      BY <2>2
    <3>2. AreJoined(LinesOf(v), LinesOf(t), LinesOf(w))
      BY <1>2, <3>1, LinesOfBoth
    <3>3. CASE w = u
      <4>1. LinesOf(v) = all
        BY <1>2, <1>4, <1>5, <3>2, <3>3 DEF AreJoined
      <4>2. all \in Seq(T)
        BY <1>4, JoinedElements
      <4>. QED  BY <4>1, <4>2 DEF IsCut
    <3>4. CASE w \in Seq(S) /\ \A i \in 1 .. Len(w) : w[i] # "\n"
      <4>1. LinesOf(w) = <<>>
        BY <3>4, NoLines
      <4>2. ls \in Seq(T)
        BY <1>4 DEF Joined
      <4>3. ls \o <<>> = ls
        BY <4>2
      <4>4. LinesOf(v) = ls
        BY <1>2, <3>2, <4>1, <4>3, Zenon DEF AreJoined
      <4>. QED  BY <1>8, <4>4
    <3>. QED  BY <3>1, <3>3, <3>4, CutOfLine
  <2>. QED  BY <1>9, <2>1, <2>2, CutOfBoth
<1>. QED  BY <1>1, <1>6, <1>7, <1>9 DEF IsLined

(* Several lines, each with its end.                                       *)
AreLines(S, hh, ll, n) ==
    /\ hh \in Seq(Seq(S)) /\ ll \in Seq(Seq(S)) /\ n = Len(hh) /\ n = Len(ll)
    /\ \A i \in 1 .. n : IsLine(S, hh[i], ll[i])

LEMMA LinedAll ==
    ASSUME NEW S, NEW t, NEW ls, IsLined(S, t, ls), NEW hh, NEW ll, NEW n, AreLines(S, hh, ll, n),
           NEW z, Joined(S, z, t, FlattenSeq(hh)), NEW all, Joined(Seq(S), all, ls, ll)
    PROVE  IsLined(S, z, all)
<1>1. PICK T : T = Seq(S)
  OBVIOUS
<1>2. /\ hh \in Seq(Seq(S)) /\ ll \in Seq(T) /\ n \in Nat /\ n = Len(hh) /\ n = Len(ll)
      /\ \A i \in 1 .. n : IsLine(S, hh[i], ll[i])
  BY <1>1 DEF AreLines
<1>3. PICK f : IsFlat(f, S, hh, n) /\ FlattenSeq(hh) = f[n]
  <2>1. AreSeqs(hh, S, n)
    BY <1>2 DEF AreSeqs
  <2>. QED  BY <2>1, FlattenFunction
<1>4. /\ \A i \in 0 .. n : f[i] \in Seq(S)
      /\ f[0] = <<>>
      /\ \A i \in 1 .. n : f[i] = f[i - 1] \o hh[i]
  BY <1>3 DEF IsFlat
<1>5. t \in Seq(S) /\ ls \in Seq(T)
  BY <1>1 DEF IsLined, Joined
<1>. DEFINE K == {i \in Nat : i <= n =>
                    \E x, l, a : /\ Joined(S, x, t, f[i]) /\ IsCut(T, l, ll) /\ Len(l) = i
                                 /\ Joined(T, a, ls, l) /\ IsLined(S, x, a)}
<1>6. 0 \in K
  <2>1. PICK nil : nil = <<>> /\ nil \in Seq(S) /\ nil \in Seq(T) /\ Len(nil) = 0
    BY EmptySeq
  <2>2. Joined(S, t, t, f[0])
    <3>1. t \o <<>> = t
      BY <1>5
    <3>. QED  BY <1>4, <1>5, <2>1, <3>1 DEF Joined
  <2>3. Joined(T, ls, ls, nil)
    <3>1. ls \o <<>> = ls
      BY <1>5
    <3>. QED  BY <1>5, <2>1, <3>1 DEF Joined
  <2>4. IsCut(T, nil, ll)
    BY <1>2, <2>1 DEF IsCut
  <2>5. IsLined(S, t, ls)
    OBVIOUS
  <2>6. \E x, l, a : /\ Joined(S, x, t, f[0]) /\ IsCut(T, l, ll) /\ Len(l) = 0
                     /\ Joined(T, a, ls, l) /\ IsLined(S, x, a)
    BY <2>1, <2>2, <2>3, <2>4, <2>5, Zenon
  <2>. QED  BY <2>6
<1>7. ASSUME NEW i \in Nat, i \in K PROVE i + 1 \in K
  <2>. SUFFICES ASSUME i + 1 <= n
                PROVE  \E x, l, a : /\ Joined(S, x, t, f[i + 1]) /\ IsCut(T, l, ll) /\ Len(l) = i + 1
                                    /\ Joined(T, a, ls, l) /\ IsLined(S, x, a)
    OBVIOUS
  <2>1. i + 1 \in 1 .. n /\ (i + 1) - 1 = i /\ i <= n /\ i \in 0 .. n /\ i + 1 \in 0 .. n
    BY <1>2
  <2>2. PICK x, l, a : /\ Joined(S, x, t, f[i]) /\ IsCut(T, l, ll) /\ Len(l) = i
                       /\ Joined(T, a, ls, l) /\ IsLined(S, x, a)
    BY <1>7, <2>1
  <2>. HIDE DEF K
  <2>3. PICK u, y : u = hh[i + 1] /\ y = ll[i + 1] /\ IsLine(S, u, y)
    BY <1>2, <2>1
  <2>4. u \in Seq(S) /\ y \in T
    BY <1>1, <2>3, LineElements
  <2>5. Joined(S, f[i + 1], f[i], u)
    <3>1. f[i + 1] = f[i] \o u
      BY <1>4, <2>1, <2>3
    <3>. QED  BY <1>4, <2>1, <2>4, <3>1 DEF Joined
  <2>6. PICK x2 : Joined(S, x2, t, f[i + 1])
    BY <1>4, <1>5, <2>1 DEF Joined
  <2>7. Joined(S, x2, x, u)
    BY <2>2, <2>5, <2>6, JoinedThree
  <2>8. PICK one \in Seq(T) : one = <<y>> /\ Len(one) = 1 /\ one[1] = y
    BY <2>4, OneElement
  <2>9. PICK l2 : Joined(T, l2, l, one)
    BY <2>2, <2>8 DEF Joined, IsCut
  <2>10. IsCut(T, l2, ll) /\ Len(l2) = i + 1
    <3>1. /\ l2 \in Seq(T) /\ Len(l2) = Len(l) + Len(one)
          /\ \A k \in 1 .. Len(l) : l2[k] = l[k]
          /\ \A k \in 1 .. Len(one) : l2[Len(l) + k] = one[k]
      BY <2>9, JoinedElements
    <3>2. \A k \in 1 .. i : l2[k] = ll[k]
      BY <2>2, <3>1 DEF IsCut
    <3>3. l2[i + 1] = ll[i + 1]
      BY <2>2, <2>3, <2>8, <3>1
    <3>4. \A k \in 1 .. i + 1 : k \in 1 .. i \/ k = i + 1
      OBVIOUS
    <3>. QED  BY <1>2, <2>2, <2>8, <3>1, <3>2, <3>3, <3>4 DEF IsCut
  <2>11. PICK a2 : Joined(T, a2, ls, l2)
    BY <1>5, <2>10 DEF Joined, IsCut
  <2>12. Joined(T, a2, a, one)
    BY <2>2, <2>9, <2>11, JoinedThree
  <2>13. IsLined(S, x2, a2)
    <3>1. Joined(Seq(S), a2, a, <<y>>)
      BY <1>1, <2>8, <2>12
    <3>. QED  BY <2>2, <2>3, <2>7, <3>1, LinedNext
  <2>. QED  BY <2>6, <2>10, <2>11, <2>13
<1>8. n \in K
  <2>. HIDE DEF K
  <2>. QED  BY <1>2, <1>6, <1>7, Induction
<1>9. PICK x, l, a : /\ Joined(S, x, t, f[n]) /\ IsCut(T, l, ll) /\ Len(l) = n
                     /\ Joined(T, a, ls, l) /\ IsLined(S, x, a)
  BY <1>2, <1>8
<1>10. l = ll
  BY <1>2, <1>9, CutOfWhole
<1>11. x = z /\ a = all
  BY <1>1, <1>3, <1>9, <1>10 DEF Joined
<1>. QED  BY <1>9, <1>11

LEMMA FirstLine ==
    ASSUME NEW S, "\n" \in S, NEW w \in Seq(S), NEW n \in 1 .. Len(w), w[n] = "\n",
           \A i \in 1 .. n - 1 : w[i] # "\n"
    PROVE  /\ LinesOf(w) \in Seq(Seq(S)) /\ LinesOf(w) # <<>>
           /\ Len(LinesOf(w)[1]) = n - 1 /\ \A i \in 1 .. n - 1 : LinesOf(w)[1][i] = w[i]
<1>1. PICK m \in Nat, k \in Nat, l \in Nat : m = Len(w) /\ k + 1 = n /\ n + l = m
  <2>1. Len(w) \in Nat /\ n - 1 \in Nat /\ Len(w) - n \in Nat /\ (n - 1) + 1 = n /\ n + (Len(w) - n) = Len(w)
    OBVIOUS
  <2>. QED  BY <2>1, Zenon
<1>2. PICK y \in Seq(S) : Len(y) = k /\ \A i \in 1 .. k : y[i] = w[i]
  <2>1. PICK y : y = [i \in 1 .. k |-> w[i]]
    OBVIOUS
  <2>2. \A i \in 1 .. k : i \in 1 .. m
    BY <1>1
  <2>3. \A i \in 1 .. k : w[i] \in S
    BY <1>1, <2>2
  <2>. QED  BY <2>1, <2>3
<1>3. PICK x \in Seq(S) : Len(x) = l /\ \A i \in 1 .. l : x[i] = w[n + i]
  <2>1. PICK x : x = [i \in 1 .. l |-> w[n + i]]
    OBVIOUS
  <2>2. \A i \in 1 .. l : n + i \in 1 .. m
    BY <1>1
  <2>3. \A i \in 1 .. l : w[n + i] \in S
    BY <1>1, <2>2
  <2>4. x \in [1 .. l -> S]
    BY <2>1, <2>3
  <2>5. x \in Seq(S) /\ Len(x) = l
    BY <2>4
  <2>6. \A i \in 1 .. l : x[i] = w[n + i]
    BY <2>1
  <2>. QED  BY <2>5, <2>6
<1>4. PICK end \in Seq(S) : end = <<"\n">> /\ Len(end) = 1 /\ end[1] = "\n"
  <2>1. <<"\n">> \in Seq(S) /\ Len(<<"\n">>) = 1 /\ <<"\n">>[1] = "\n"
    BY OneElement
  <2>. QED  BY <2>1
<1>5. PICK u : Joined(S, u, y, end)
  BY DEF Joined
<1>6. /\ u \in Seq(S) /\ Len(u) = n /\ u[n] = "\n" /\ \A i \in 1 .. k : u[i] = y[i]
  <2>1. /\ u \in Seq(S) /\ Len(u) = Len(y) + Len(end)
        /\ \A i \in 1 .. Len(y) : u[i] = y[i]
        /\ \A i \in 1 .. Len(end) : u[Len(y) + i] = end[i]
    BY <1>5, JoinedElements
  <2>2. 1 \in 1 .. Len(end)
    BY <1>4
  <2>. QED  BY <1>1, <1>2, <1>4, <2>1, <2>2
<1>7. Joined(S, w, u, x)
  <2>1. Len(w) = Len(u) + Len(x)
    BY <1>1, <1>3, <1>6
  <2>2. ASSUME NEW i \in 1 .. Len(u) PROVE w[i] = u[i]
    <3>1. i \in 1 .. k \/ i = n
      BY <1>1, <1>6
    <3>. QED  BY <1>2, <1>6, <3>1
  <2>3. \A i \in 1 .. Len(x) : w[Len(u) + i] = x[i]
    BY <1>3, <1>6
  <2>. QED  BY <1>6, <2>1, <2>2, <2>3, JoinedWhere
<1>8. LinesOf(u) = <<y>> /\ IsTerminated(u)
  <2>1. \A i \in 1 .. Len(y) : y[i] # "\n"
    BY <1>1, <1>2
  <2>. QED  BY <1>4, <1>5, <2>1, OneLine
<1>9. AreJoined(LinesOf(w), LinesOf(u), LinesOf(x)) /\ LinesOf(x) \in Seq(Seq(S))
  BY <1>7, <1>8, LinesOfBoth
<1>10. PICK T, one, z, ls : T = Seq(S) /\ one = <<y>> /\ z = LinesOf(x) /\ ls = LinesOf(w)
  OBVIOUS
<1>11. one \in Seq(T) /\ Len(one) = 1 /\ one[1] = y
  BY <1>2, <1>10, OneElement
<1>12. Joined(T, ls, one, z)
  BY <1>8, <1>9, <1>10, <1>11 DEF Joined, AreJoined
<1>13. ls \in Seq(T) /\ Len(ls) = Len(one) + Len(z) /\ Len(z) \in Nat /\ ls[1] = one[1]
  <2>1. /\ ls \in Seq(T) /\ z \in Seq(T) /\ Len(ls) = Len(one) + Len(z)
        /\ \A i \in 1 .. Len(one) : ls[i] = one[i]
        /\ \A i \in 1 .. Len(z) : ls[Len(one) + i] = z[i]
    BY <1>12, JoinedElements
  <2>2. 1 \in 1 .. Len(one)
    BY <1>11
  <2>. QED  BY <2>1, <2>2
<1>14. ls # <<>> /\ ls[1] = y
  BY <1>11, <1>13, EmptySeq
<1>15. n - 1 = k
  BY <1>1
<1>. QED  BY <1>2, <1>10, <1>13, <1>14, <1>15

(* What follows the headers has no line, or one that is no header.         *)
IsOver(S, ls) ==
    \/ ls = <<>>
    \/ /\ ls \in Seq(Seq(S)) /\ ls # <<>>
       /\ \A i \in 1 .. Len(ls[1]) : ls[1][i] # ":"

LEMMA RestLines ==
    ASSUME NEW S, "\n" \in S, NEW t \in Seq(S), IsRest(t), NEW w, IsCut(S, w, t)
    PROVE  IsOver(S, LinesOf(w))
<1>1. PICK m \in Nat, k \in Nat : m = Len(t) /\ k = Len(w)
  BY DEF IsCut
<1>2. w \in Seq(S) /\ k <= m /\ \A i \in 1 .. k : i \in 1 .. m /\ w[i] = t[i]
  BY <1>1 DEF IsCut
<1>3. CASE HasNone(t, {"\n"})
  <2>1. \A i \in 1 .. m : t[i] \notin {"\n"}
    BY <1>1, <1>3, NoneOf
  <2>2. \A i \in 1 .. k : w[i] # "\n"
    BY <1>2, <2>1
  <2>3. LinesOf(w) = <<>>
    BY <1>1, <1>2, <2>2, NoLines
  <2>. QED  BY <2>3 DEF IsOver
<1>4. CASE \E n \in DOMAIN t : t[n] = "\n" /\ HasNone(SubSeq(t, 1, n - 1), {":", "\n"})
  <2>1. PICK n \in DOMAIN t : t[n] = "\n" /\ HasNone(SubSeq(t, 1, n - 1), {":", "\n"})
    BY <1>4
  <2>2. n \in 1 .. m /\ n - 1 \in 0 .. m
    BY <1>1, <2>1
  <2>3. PICK l \in Nat : l = n - 1
    BY <2>2
  <2>3a. PICK v : v = SubSeq(t, 1, n - 1)
    OBVIOUS
  <2>4. IsCut(S, v, t) /\ Len(v) = l
    <3>1. IsPiece(v, t, 1, l) /\ l \in 0 .. Len(t)
      BY <1>1, <2>2, <2>3, <2>3a DEF IsPiece
    <3>. QED  BY <3>1, CutIs
  <2>5. \A i \in 1 .. l : t[i] # ":" /\ t[i] # "\n"
    <3>1. v \in Seq(S) /\ \A i \in 1 .. l : v[i] = t[i]
      BY <2>4 DEF IsCut
    <3>2. HasNone(v, {":", "\n"})
      BY <2>1, <2>3a
    <3>3. \A i \in 1 .. Len(v) : v[i] \notin {":", "\n"}
      BY <3>1, <3>2, NoneOf
    <3>. QED  BY <2>4, <3>1, <3>3
  <2>6. CASE k < n
    <3>1. \A i \in 1 .. k : i \in 1 .. l
      BY <2>2, <2>3, <2>6
    <3>2. \A i \in 1 .. k : w[i] # "\n"
      BY <1>2, <2>5, <3>1
    <3>3. LinesOf(w) = <<>>
      BY <1>1, <1>2, <3>2, NoLines
    <3>. QED  BY <3>3 DEF IsOver
  <2>7. CASE ~(k < n)
    <3>1. n \in 1 .. k /\ \A i \in 1 .. n - 1 : i \in 1 .. k /\ i \in 1 .. l
      BY <2>2, <2>3, <2>7
    <3>2. w[n] = "\n" /\ \A i \in 1 .. n - 1 : w[i] # "\n" /\ w[i] # ":"
      BY <1>2, <2>1, <2>5, <3>1
    <3>3. n \in 1 .. Len(w)
      BY <1>1, <3>1
    <3>4. /\ LinesOf(w) \in Seq(Seq(S)) /\ LinesOf(w) # <<>>
          /\ Len(LinesOf(w)[1]) = n - 1 /\ \A i \in 1 .. n - 1 : LinesOf(w)[1][i] = w[i]
      BY <1>2, <3>2, <3>3, FirstLine
    <3>. QED  BY <3>2, <3>4 DEF IsOver
  <2>. QED  BY <2>6, <2>7
<1>. QED  BY <1>3, <1>4 DEF IsRest

-----------------------------------------------------------------------------
(* The lines of an answer.                                                 *)

(* (A prover has to be told that a delimiter is a string.)                 *)
Chars == STRING \cup {":", "/", "@", "?", "#", "\n", " ", ""}

LEMMA CharsHave ==
    /\ {":", "/", "@", "?", "#", "\n", " ", ""} \subseteq Chars
    /\ Seq(STRING) \subseteq Seq(Chars)
<1>1. PICK S, D : S = STRING /\ D = {":", "/", "@", "?", "#", "\n", " ", ""} /\ Chars = S \cup D
  BY Zenon DEF Chars
<1>2. D \subseteq S \cup D /\ Seq(S) \subseteq Seq(S \cup D)
  OBVIOUS
<1>. QED  BY <1>1, <1>2, Zenon

LEMMA Separators ==
    " " # "\n" /\ ":" # "\n" /\ "" # " " /\ ":" # " " /\ "200" # " "
<1>. QED  BY Zenon

(* A header line is a text without a line end.                             *)
AreParts(S, h) ==
    h.key \in Seq(S) /\ h.before \in Seq(S) /\ h.val \in Seq(S) /\ h.after \in Seq(S)

(* A header line in its parts.                                             *)
LEMMA HeaderJoins ==
    ASSUME NEW S, ":" \in S, NEW h, AreParts(S, h)
    PROVE  \E d, k, l, m, e : /\ d = <<":">> /\ d \in Seq(S) /\ Len(d) = 1 /\ d[1] = ":"
                              /\ Joined(S, k, h.key, d) /\ Joined(S, l, k, h.before)
                              /\ Joined(S, m, l, h.val) /\ Joined(S, e, m, h.after)
                              /\ HeaderLine(h) = e
<1>1. PICK d : d = <<":">> /\ d \in Seq(S) /\ Len(d) = 1 /\ d[1] = ":"
  <2>1. <<":">> \in Seq(S) /\ Len(<<":">>) = 1 /\ <<":">>[1] = ":"
    BY OneElement
  <2>. QED  BY <2>1
<1>2. PICK k : Joined(S, k, h.key, d)
  BY <1>1 DEF Joined, AreParts
<1>3. k \in Seq(S)
  BY <1>2, JoinedElements
<1>4. PICK l : Joined(S, l, k, h.before)
  BY <1>3 DEF Joined, AreParts
<1>5. l \in Seq(S)
  BY <1>4, JoinedElements
<1>6. PICK m : Joined(S, m, l, h.val)
  BY <1>5 DEF Joined, AreParts
<1>7. m \in Seq(S)
  BY <1>6, JoinedElements
<1>8. PICK e : Joined(S, e, m, h.after)
  BY <1>7 DEF Joined, AreParts
<1>9. HeaderLine(h) = e
  BY <1>1, <1>2, <1>4, <1>6, <1>8, Zenon DEF Joined, HeaderLine
<1>. QED  BY <1>1, <1>2, <1>4, <1>6, <1>8, <1>9

LEMMA HeaderIsKeyAndPadded ==
    ASSUME NEW S, ":" \in S, NEW h, AreParts(S, h)
    PROVE  \E d, y, b, pad : /\ d = <<":">> /\ d \in Seq(S) /\ Len(d) = 1 /\ d[1] = ":"
                             /\ Joined(S, HeaderLine(h), h.key, y) /\ Joined(S, y, d, pad)
                             /\ Joined(S, b, h.before, h.val) /\ Joined(S, pad, b, h.after)
<1>1. PICK d, k, l, m, e : /\ d = <<":">> /\ d \in Seq(S) /\ Len(d) = 1 /\ d[1] = ":"
                           /\ Joined(S, k, h.key, d) /\ Joined(S, l, k, h.before)
                           /\ Joined(S, m, l, h.val) /\ Joined(S, e, m, h.after)
                           /\ HeaderLine(h) = e
  BY HeaderJoins
<1>2. PICK b : Joined(S, b, h.before, h.val)
  BY DEF Joined, AreParts
<1>3. Joined(S, m, k, b)
  BY <1>1, <1>2, JoinedBack
<1>4. b \in Seq(S)
  BY <1>2, JoinedElements
<1>5. PICK pad : Joined(S, pad, b, h.after)
  BY <1>4 DEF Joined, AreParts
<1>6. Joined(S, e, k, pad)
  BY <1>1, <1>3, <1>5, JoinedBack
<1>7. pad \in Seq(S)
  BY <1>5, JoinedElements
<1>8. PICK y : Joined(S, y, d, pad)
  BY <1>1, <1>7 DEF Joined
<1>9. Joined(S, e, h.key, y)
  BY <1>1, <1>6, <1>8, JoinedBack
<1>. QED  BY <1>1, <1>2, <1>5, <1>8, <1>9

LEMMA HeaderIsOneLine ==
    ASSUME NEW S, ":" \in S, NEW h, AreParts(S, h), IsHeader(h)
    PROVE  HeaderLine(h) \in Seq(S) /\ \A i \in 1 .. Len(HeaderLine(h)) : HeaderLine(h)[i] # "\n"
<1>1. PICK e, blank : e = "\n" /\ blank = " " /\ e # blank /\ ":" # e
  BY Separators, Zenon
<1>2. h.key \in Seq(S) /\ h.before \in Seq(S) /\ h.val \in Seq(S) /\ h.after \in Seq(S)
  BY DEF AreParts
<1>3. /\ HasNone(h.key, {":", e}) /\ HasNone(h.val, {e})
      /\ ToSet(h.before) \subseteq {blank} /\ ToSet(h.after) \subseteq {blank}
  BY <1>1, Zenon DEF IsHeader
<1>4. \A i \in 1 .. Len(h.key) : h.key[i] # e
  <2>1. \A i \in 1 .. Len(h.key) : h.key[i] \notin {":", e}
    BY <1>2, <1>3, NoneOf
  <2>. QED  BY <2>1
<1>5. \A i \in 1 .. Len(h.val) : h.val[i] # e
  <2>1. \A i \in 1 .. Len(h.val) : h.val[i] \notin {e}
    BY <1>2, <1>3, NoneOf
  <2>. QED  BY <2>1
<1>6. \A i \in 1 .. Len(h.before) : h.before[i] # e
  <2>1. \A i \in 1 .. Len(h.before) : h.before[i] \in {blank}
    BY <1>2, <1>3, AllOf
  <2>. QED  BY <1>1, <2>1, Zenon
<1>7. \A i \in 1 .. Len(h.after) : h.after[i] # e
  <2>1. \A i \in 1 .. Len(h.after) : h.after[i] \in {blank}
    BY <1>2, <1>3, AllOf
  <2>. QED  BY <1>1, <2>1, Zenon
<1>8. PICK d, k, l, m, x : /\ d = <<":">> /\ d \in Seq(S) /\ Len(d) = 1 /\ d[1] = ":"
                           /\ Joined(S, k, h.key, d) /\ Joined(S, l, k, h.before)
                           /\ Joined(S, m, l, h.val) /\ Joined(S, x, m, h.after)
                           /\ HeaderLine(h) = x
  BY HeaderJoins
<1>9. \A i \in 1 .. Len(d) : d[i] # e
  <2>1. \A i \in 1 .. Len(d) : i = 1
    BY <1>8
  <2>. QED  BY <1>1, <1>8, <2>1, Zenon
<1>10. \A i \in 1 .. Len(k) : k[i] # e
  <2>1. Joined(S, k, h.key, d)
    BY <1>8
  <2>. QED  BY <1>4, <1>9, <2>1, NowhereInBoth
<1>11. \A i \in 1 .. Len(l) : l[i] # e
  BY <1>6, <1>8, <1>10, NowhereInBoth
<1>12. \A i \in 1 .. Len(m) : m[i] # e
  BY <1>5, <1>8, <1>11, NowhereInBoth
<1>13. \A i \in 1 .. Len(x) : x[i] # e
  BY <1>7, <1>8, <1>12, NowhereInBoth
<1>14. x \in Seq(S)
  BY <1>8, JoinedElements
<1>. QED  BY <1>1, <1>8, <1>13, <1>14, Zenon

(* An answer in its parts, and the lines up to the end of its headers.     *)
IsInParts(p) ==
    /\ p.status \in Seq(Chars) /\ \A i \in 1 .. Len(p.status) : p.status[i] # "\n"
    /\ Len(p.headers) \in Nat /\ DOMAIN p.headers = 1 .. Len(p.headers)
    /\ \A i \in 1 .. Len(p.headers) : AreParts(Chars, p.headers[i]) /\ IsHeader(p.headers[i])
    /\ p.rest \in Seq(Chars) /\ IsRest(p.rest)

HeaderLines(p) == [i \in 1 .. Len(p.headers) |-> HeaderLine(p.headers[i])]

LEMMA AnswersAreInParts ==
    ASSUME NEW p, IsAnswer(p)
    PROVE  IsInParts(p)
<1>1. /\ p.status \in Seq(STRING) /\ p.headers \in Seq(Headers) /\ p.rest \in Seq(STRING)
      /\ IsStatus(p.status) /\ IsRest(p.rest) /\ \A i \in DOMAIN p.headers : IsHeader(p.headers[i])
  BY DEF IsAnswer
<1>2. p.status \in Seq(Chars) /\ p.rest \in Seq(Chars)
  BY <1>1, CharsHave, Zenon
<1>3. \A i \in 1 .. Len(p.status) : p.status[i] # "\n"
  <2>1. HasNone(p.status, {"\n"})
    BY <1>1, Zenon DEF IsStatus
  <2>2. \A i \in 1 .. Len(p.status) : p.status[i] \notin {"\n"}
    BY <1>2, <2>1, NoneOf
  <2>. QED  BY <2>2
<1>4. Len(p.headers) \in Nat /\ DOMAIN p.headers = 1 .. Len(p.headers)
  BY <1>1
<1>5. ASSUME NEW i \in 1 .. Len(p.headers) PROVE AreParts(Chars, p.headers[i])
  <2>1. PICK h \in Headers : h = p.headers[i]
    BY <1>1
  <2>2. /\ h.key \in Seq(STRING) /\ h.before \in Seq(STRING)
        /\ h.val \in Seq(STRING) /\ h.after \in Seq(STRING)
    BY DEF Headers
  <2>3. AreParts(Chars, h)
    BY <2>2, CharsHave, Zenon DEF AreParts
  <2>. QED  BY <2>1, <2>3
<1>. QED  BY <1>1, <1>2, <1>3, <1>4, <1>5 DEF IsInParts

(* The first line and the headers are the lines of what they are.          *)
LEMMA FrontOfDatagram ==
    ASSUME NEW p, IsInParts(p)
    PROVE  \E t, all : /\ Joined(Chars, Datagram(p), t, p.rest) /\ IsLined(Chars, t, all)
                       /\ Joined(Seq(Chars), all, <<p.status>>, HeaderLines(p))
<1>0. PICK n \in Nat : n = Len(p.headers)
  BY DEF IsInParts
<1>0a. PICK S, T : S = Chars /\ T = Seq(S)
  OBVIOUS
<1>1. S = Chars /\ T = Seq(S) /\ n = Len(p.headers)
  BY <1>0, <1>0a
<1>2. /\ p.status \in T /\ \A i \in 1 .. Len(p.status) : p.status[i] # "\n"
      /\ DOMAIN p.headers = 1 .. n
      /\ \A i \in 1 .. n : AreParts(S, p.headers[i]) /\ IsHeader(p.headers[i])
      /\ p.rest \in T
  BY <1>1 DEF IsInParts
<1>3. ":" \in S /\ "\n" \in S
  BY <1>1, CharsHave, Zenon
<1>4. PICK end : end = <<"\n">> /\ end \in Seq(S)
  <2>1. <<"\n">> \in Seq(S)
    BY <1>3, OneElement
  <2>. QED  BY <2>1
<1>5. PICK u : Joined(S, u, p.status, end)
  BY <1>1, <1>2, <1>4 DEF Joined
<1>6. IsLine(S, u, p.status)
  BY <1>2, <1>4, <1>5 DEF IsLine
<1>7. PICK first : first = <<p.status>> /\ first \in Seq(T)
  <2>1. <<p.status>> \in Seq(T)
    BY <1>2, OneElement
  <2>. QED  BY <2>1
<1>8. IsLined(S, u, first)
  <2>1. PICK nil : nil = <<>> /\ nil \in Seq(S) /\ nil \in Seq(T)
    BY EmptySeq
  <2>2. IsLined(S, nil, nil)
    BY <2>1, LinedNothing
  <2>3. Joined(S, u, nil, u)
    <3>1. u \in Seq(S)
      BY <1>5, JoinedElements
    <3>2. u = <<>> \o u
      BY <3>1
    <3>. QED  BY <2>1, <3>1, <3>2 DEF Joined
  <2>4. Joined(Seq(S), first, nil, <<p.status>>)
    <3>1. first = <<>> \o first
      BY <1>7
    <3>. QED  BY <1>1, <1>7, <2>1, <3>1 DEF Joined
  <2>. QED  BY <1>6, <2>2, <2>3, <2>4, LinedNext
<1>9. PICK hh : hh = [i \in DOMAIN p.headers |-> HeaderLine(p.headers[i]) \o <<"\n">>]
  OBVIOUS
<1>10. PICK ll : ll = HeaderLines(p)
  OBVIOUS
<1>11. AreLines(S, hh, ll, n)
  <2>1. ASSUME NEW i \in 1 .. n
        PROVE  IsLine(S, hh[i], ll[i]) /\ hh[i] \in Seq(S) /\ ll[i] \in Seq(S)
    <3>1. /\ HeaderLine(p.headers[i]) \in Seq(S)
          /\ \A j \in 1 .. Len(HeaderLine(p.headers[i])) : HeaderLine(p.headers[i])[j] # "\n"
      BY <1>2, <1>3, HeaderIsOneLine
    <3>2. PICK x, y : x = HeaderLine(p.headers[i]) /\ y = hh[i]
      OBVIOUS
    <3>3. y = x \o end
      BY <1>2, <1>4, <1>9, <3>2
    <3>4. ll[i] = x
      BY <1>1, <1>10, <3>2 DEF HeaderLines
    <3>5. Joined(S, y, x, end)
      BY <1>4, <3>1, <3>2, <3>3 DEF Joined
    <3>6. y \in Seq(S)
      BY <3>5, JoinedElements
    <3>. QED  BY <1>4, <3>1, <3>2, <3>4, <3>5, <3>6 DEF IsLine
  <2>2. hh \in Seq(Seq(S)) /\ Len(hh) = n
    BY <1>2, <1>9, <2>1
  <2>3. ll \in Seq(Seq(S)) /\ Len(ll) = n
    <3>1. ll = [i \in 1 .. n |-> HeaderLine(p.headers[i])]
      BY <1>1, <1>10 DEF HeaderLines
    <3>2. ll \in [1 .. n -> Seq(S)]
      <4>1. \A i \in 1 .. n : ll[i] \in Seq(S)
        BY <2>1
      <4>. QED  BY <3>1, <4>1
    <3>. QED  BY <3>2
  <2>. QED  BY <1>1, <2>1, <2>2, <2>3 DEF AreLines
<1>12. PICK flat : flat = FlattenSeq(hh) /\ flat \in Seq(S)
  <2>1. hh \in Seq(Seq(S))
    BY <1>11 DEF AreLines
  <2>2. FlattenSeq(hh) \in Seq(S)
    BY <2>1, FlattenElements
  <2>. QED  BY <2>2
<1>13. PICK t : Joined(S, t, u, flat)
  <2>1. u \in Seq(S)
    BY <1>5, JoinedElements
  <2>. QED  BY <1>12, <2>1 DEF Joined
<1>14. PICK all : Joined(T, all, first, ll)
  BY <1>1, <1>7, <1>11 DEF Joined, AreLines
<1>15. IsLined(S, t, all)
  <2>1. Joined(S, t, u, FlattenSeq(hh)) /\ Joined(Seq(S), all, first, ll)
    BY <1>1, <1>12, <1>13, <1>14
  <2>. QED  BY <1>8, <1>11, <2>1, LinedAll
<1>16. Joined(S, Datagram(p), t, p.rest)
  <2>1. PICK d : Joined(S, d, t, p.rest)
    <3>1. t \in Seq(S)
      BY <1>13, JoinedElements
    <3>. QED  BY <1>1, <1>2, <3>1 DEF Joined
  <2>2. Datagram(p) = d
    BY <1>4, <1>5, <1>9, <1>12, <1>13, <2>1, Zenon DEF Joined, Datagram
  <2>. QED  BY <2>1, <2>2
<1>. QED  BY <1>1, <1>7, <1>10, <1>14, <1>15, <1>16

(* The lines of an answer of which a part has arrived: the first, the      *)
(* first m headers, and nothing or what is no header.                      *)
AreFirstLines(p, ls, m) ==
    /\ ls \in Seq(Seq(Chars)) /\ m \in 0 .. Len(p.headers)
    /\ ls # <<>> => ls[1] = p.status
    /\ \A k \in 1 .. m : k + 1 <= Len(ls) /\ ls[k + 1] = HeaderLine(p.headers[k])
    /\ Len(ls) <= m + 1 \/ \A i \in 1 .. Len(ls[m + 2]) : ls[m + 2][i] # ":"

LEMMA LinesOfFront ==
    ASSUME NEW p, IsInParts(p), NEW all, Joined(Seq(Chars), all, <<p.status>>, HeaderLines(p)),
           NEW ls, IsCut(Seq(Chars), ls, all)
    PROVE  \E m : AreFirstLines(p, ls, m)
<1>0. PICK n \in Nat : n = Len(p.headers)
  BY DEF IsInParts
<1>0a. PICK T : T = Seq(Chars)
  OBVIOUS
<1>1. T = Seq(Chars) /\ n = Len(p.headers) /\ p.status \in T
  BY <1>0, <1>0a DEF IsInParts
<1>2. PICK first : first = <<p.status>> /\ Len(first) = 1 /\ first[1] = p.status
  <2>1. <<p.status>> \in Seq(T) /\ Len(<<p.status>>) = 1 /\ <<p.status>>[1] = p.status
    BY <1>1, OneElement
  <2>. QED  BY <2>1
<1>3. PICK ll : ll = HeaderLines(p) /\ Len(ll) = n /\ \A i \in 1 .. n : ll[i] = HeaderLine(p.headers[i])
  <2>1. Len(HeaderLines(p)) = n /\ \A i \in 1 .. n : HeaderLines(p)[i] = HeaderLine(p.headers[i])
    BY <1>1 DEF HeaderLines
  <2>. QED  BY <2>1
<1>4. /\ all \in Seq(T) /\ Len(all) = 1 + n
      /\ all[1] = p.status /\ \A k \in 1 .. n : all[1 + k] = HeaderLine(p.headers[k])
  <2>1. Joined(T, all, first, ll)
    BY <1>1, <1>2, <1>3
  <2>2. /\ all \in Seq(T) /\ Len(all) = Len(first) + Len(ll)
        /\ \A i \in 1 .. Len(first) : all[i] = first[i]
        /\ \A i \in 1 .. Len(ll) : all[Len(first) + i] = ll[i]
    BY <2>1, JoinedElements
  <2>. QED  BY <1>2, <1>3, <2>2
<1>5. PICK k \in Nat : k = Len(ls) /\ k <= 1 + n /\ ls \in Seq(T)
  BY <1>1, <1>4 DEF IsCut
<1>6. \A i \in 1 .. k : ls[i] = all[i]
  BY <1>5 DEF IsCut
<1>7. PICK m \in 0 .. n : m = IF k = 0 THEN 0 ELSE k - 1
  BY <1>5
<1>8. k <= m + 1 /\ \A i \in 1 .. m : i + 1 \in 1 .. k /\ i + 1 = 1 + i /\ i \in 1 .. n
  BY <1>5, <1>7
<1>9. ls # <<>> => ls[1] = p.status
  <2>1. ls # <<>> => k # 0
    BY <1>5, EmptySeq
  <2>2. k # 0 => 1 \in 1 .. k
    BY <1>5
  <2>. QED  BY <1>4, <1>6, <2>1, <2>2
<1>10. \A i \in 1 .. m : i + 1 <= k /\ ls[i + 1] = HeaderLine(p.headers[i])
  <2>. SUFFICES ASSUME NEW i \in 1 .. m
                PROVE  i + 1 <= k /\ ls[i + 1] = HeaderLine(p.headers[i])
    OBVIOUS
  <2>1. i + 1 \in 1 .. k /\ i + 1 = 1 + i /\ i \in 1 .. n
    BY <1>8
  <2>2. ls[i + 1] = all[1 + i] /\ i + 1 <= k
    BY <1>5, <1>6, <2>1
  <2>3. all[1 + i] = HeaderLine(p.headers[i])
    BY <1>4, <2>1
  <2>. QED  BY <2>2, <2>3
<1>. QED  BY <1>1, <1>5, <1>7, <1>8, <1>9, <1>10 DEF AreFirstLines

LEMMA LinesOfFrontAndRest ==
    ASSUME NEW p, IsInParts(p), NEW all, Joined(Seq(Chars), all, <<p.status>>, HeaderLines(p)),
           NEW more, IsOver(Chars, more), NEW ls, AreJoined(ls, all, more)
    PROVE  ls # <<>> /\ AreFirstLines(p, ls, Len(p.headers))
<1>0. PICK n \in Nat : n = Len(p.headers)
  BY DEF IsInParts
<1>0a. PICK T : T = Seq(Chars)
  OBVIOUS
<1>1. T = Seq(Chars) /\ n = Len(p.headers) /\ p.status \in T
  BY <1>0, <1>0a DEF IsInParts
<1>2. PICK first : first = <<p.status>> /\ Len(first) = 1 /\ first[1] = p.status
  <2>1. <<p.status>> \in Seq(T) /\ Len(<<p.status>>) = 1 /\ <<p.status>>[1] = p.status
    BY <1>1, OneElement
  <2>. QED  BY <2>1
<1>3. PICK ll : ll = HeaderLines(p) /\ Len(ll) = n /\ \A i \in 1 .. n : ll[i] = HeaderLine(p.headers[i])
  <2>1. Len(HeaderLines(p)) = n /\ \A i \in 1 .. n : HeaderLines(p)[i] = HeaderLine(p.headers[i])
    BY <1>1 DEF HeaderLines
  <2>. QED  BY <2>1
<1>4. /\ all \in Seq(T) /\ Len(all) = 1 + n
      /\ all[1] = p.status /\ \A k \in 1 .. n : all[1 + k] = HeaderLine(p.headers[k])
  <2>1. Joined(T, all, first, ll)
    BY <1>1, <1>2, <1>3
  <2>2. /\ all \in Seq(T) /\ Len(all) = Len(first) + Len(ll)
        /\ \A i \in 1 .. Len(first) : all[i] = first[i]
        /\ \A i \in 1 .. Len(ll) : all[Len(first) + i] = ll[i]
    BY <2>1, JoinedElements
  <2>. QED  BY <1>2, <1>3, <2>2
<1>5. more \in Seq(T)
  BY <1>1, EmptySeq DEF IsOver
<1>6. Joined(T, ls, all, more)
  BY <1>4, <1>5 DEF AreJoined, Joined
<1>7. /\ ls \in Seq(T) /\ Len(ls) = (1 + n) + Len(more)
      /\ \A i \in 1 .. 1 + n : ls[i] = all[i]
      /\ \A i \in 1 .. Len(more) : ls[(1 + n) + i] = more[i]
  <2>1. /\ ls \in Seq(T) /\ Len(ls) = Len(all) + Len(more)
        /\ \A i \in 1 .. Len(all) : ls[i] = all[i]
        /\ \A i \in 1 .. Len(more) : ls[Len(all) + i] = more[i]
    BY <1>6, JoinedElements
  <2>. QED  BY <1>4, <2>1
<1>8. PICK k \in Nat : k = Len(more)
  BY <1>5
<1>9. ls[1] = p.status /\ ls # <<>>
  <2>1. 1 \in 1 .. 1 + n /\ Len(ls) # 0
    BY <1>7, <1>8
  <2>2. ls # <<>>
    BY <1>7, <2>1, EmptySeq
  <2>. QED  BY <1>4, <1>7, <2>1, <2>2
<1>10. \A i \in 1 .. n : i + 1 <= Len(ls) /\ ls[i + 1] = HeaderLine(p.headers[i])
  <2>. SUFFICES ASSUME NEW i \in 1 .. n
                PROVE  i + 1 <= Len(ls) /\ ls[i + 1] = HeaderLine(p.headers[i])
    OBVIOUS
  <2>1. i + 1 = 1 + i /\ 1 + i \in 1 .. 1 + n /\ i + 1 <= (1 + n) + k
    OBVIOUS
  <2>. QED  BY <1>4, <1>7, <1>8, <2>1
<1>11. Len(ls) <= n + 1 \/ \A i \in 1 .. Len(ls[n + 2]) : ls[n + 2][i] # ":"
  <2>1. CASE k = 0
    BY <1>7, <1>8, <2>1
  <2>2. CASE k # 0
    <3>1. 1 \in 1 .. k /\ (1 + n) + 1 = n + 2
      BY <2>2
    <3>2. ls[n + 2] = more[1]
      BY <1>7, <1>8, <3>1
    <3>3. more # <<>>
      BY <1>5, <1>8, <2>2, EmptySeq
    <3>. QED  BY <3>2, <3>3 DEF IsOver
  <2>. QED  BY <2>1, <2>2
<1>12. n \in 0 .. n
  OBVIOUS
<1>. QED  BY <1>1, <1>7, <1>9, <1>10, <1>11, <1>12 DEF AreFirstLines

LEMMA DatagramLines ==
    ASSUME NEW p, IsInParts(p), NEW v, IsCut(Chars, v, Datagram(p))
    PROVE  /\ \E m : AreFirstLines(p, LinesOf(v), m)
           /\ v = Datagram(p) => LinesOf(v) # <<>> /\ AreFirstLines(p, LinesOf(v), Len(p.headers))
<1>1. PICK t, all : /\ Joined(Chars, Datagram(p), t, p.rest) /\ IsLined(Chars, t, all)
                    /\ Joined(Seq(Chars), all, <<p.status>>, HeaderLines(p))
  BY FrontOfDatagram
<1>2. p.rest \in Seq(Chars) /\ IsRest(p.rest) /\ "\n" \in Chars
  BY CharsHave, Zenon DEF IsInParts
<1>3. IsTerminated(t) /\ LinesOf(t) = all
  BY <1>1 DEF IsLined
<1>4. ASSUME NEW w, Joined(Chars, v, t, w), IsCut(Chars, w, p.rest)
      PROVE  LinesOf(v) # <<>> /\ AreFirstLines(p, LinesOf(v), Len(p.headers))
  <2>1. PICK ls, more : ls = LinesOf(v) /\ more = LinesOf(w)
    OBVIOUS
  <2>2. AreJoined(ls, all, more)
    <3>1. AreJoined(LinesOf(v), LinesOf(t), LinesOf(w))
      BY <1>3, <1>4, LinesOfBoth
    <3>. QED  BY <1>3, <2>1, <3>1
  <2>3. IsOver(Chars, more)
    BY <1>2, <1>4, <2>1, RestLines
  <2>. QED  BY <1>1, <2>1, <2>2, <2>3, LinesOfFrontAndRest
<1>5. CASE v = Datagram(p)
  <2>1. IsCut(Chars, p.rest, p.rest)
    BY <1>2 DEF IsCut
  <2>. QED  BY <1>1, <1>4, <1>5, <2>1
<1>6. CASE v # Datagram(p)
  <2>1. CASE IsCut(Chars, v, t)
    <3>1. PICK ls : ls = LinesOf(v) /\ IsCut(Seq(Chars), ls, all)
      BY <1>1, <2>1 DEF IsLined
    <3>2. \E m : AreFirstLines(p, ls, m)
      BY <1>1, <3>1, LinesOfFront
    <3>. QED  BY <1>6, <3>1, <3>2
  <2>2. CASE \E w : Joined(Chars, v, t, w) /\ IsCut(Chars, w, p.rest)
    BY <1>4, <1>6, <2>2
  <2>. QED  BY <1>1, <2>1, <2>2, CutOfBoth
<1>. QED  BY <1>5, <1>6

-----------------------------------------------------------------------------
(* A header line is taken apart into its key and its value.                *)

(* Up to k a text is blank.                                                *)
IsBlankTo(text, k) ==
    (\A i \in 1 .. k : text[i] = " ") /\ (k = Len(text) \/ text[k + 1] # " ")

LEMMA TrimPrefixIs ==
    ASSUME NEW S, NEW text \in Seq(S), NEW k \in 0 .. Len(text), IsBlankTo(text, k)
    PROVE  IsPiece(TrimPrefix(text), text, k + 1, Len(text))
<1>1. PICK n \in Nat : n = Len(text)
  OBVIOUS
<1>2. PICK none, blank : none = "" /\ blank = " " /\ none # blank
  BY Separators, Zenon
<1>3. PICK U : U = S \cup {none}
  OBVIOUS
<1>4. PICK w : w = text \o <<none>>
  OBVIOUS
<1>5. Len(w) = n + 1 /\ w[n + 1] = none /\ \A i \in 1 .. n : w[i] = text[i]
  <2>1. PICK e : e = <<none>> /\ e \in Seq(U) /\ Len(e) = 1 /\ e[1] = none
    <3>1. <<none>> \in Seq(U) /\ Len(<<none>>) = 1 /\ <<none>>[1] = none
      BY <1>3, OneElement
    <3>. QED  BY <3>1
  <2>2. text \in Seq(U)
    BY <1>3
  <2>3. Joined(U, w, text, e)
    BY <1>4, <2>1, <2>2 DEF Joined
  <2>4. /\ Len(w) = Len(text) + Len(e) /\ \A i \in 1 .. Len(text) : w[i] = text[i]
        /\ \A i \in 1 .. Len(e) : w[Len(text) + i] = e[i]
    BY <2>3, JoinedElements
  <2>5. 1 \in 1 .. Len(e)
    BY <2>1
  <2>. QED  BY <1>1, <2>1, <2>4, <2>5
<1>6. /\ k \in 0 .. n
      /\ \A i \in 1 .. k : text[i] = blank
      /\ k = n \/ text[k + 1] # blank
  BY <1>1, <1>2, Zenon DEF IsBlankTo
<1>. DEFINE I == {i \in 1 .. Len(w) : w[i] # blank}
<1>7. k + 1 \in I /\ I \subseteq Nat /\ I # {}
  <2>1. k + 1 \in 1 .. Len(w)
    BY <1>5, <1>6
  <2>2. w[k + 1] # blank
    <3>1. CASE k = n
      BY <1>2, <1>5, <3>1, Zenon
    <3>2. CASE k # n
      <4>1. k + 1 \in 1 .. n
        BY <1>6, <3>2
      <4>. QED  BY <1>5, <1>6, <3>2, <4>1
    <3>. QED  BY <3>1, <3>2
  <2>. QED  BY <1>5, <2>1, <2>2
<1>8. ASSUME NEW i \in I PROVE k + 1 <= i
  <2>1. i \in 1 .. n + 1 /\ w[i] # blank
    BY <1>5
  <2>2. ~(i <= k)
    <3>. SUFFICES ASSUME i <= k PROVE FALSE
      OBVIOUS
    <3>1. i \in 1 .. k /\ i \in 1 .. n
      BY <1>6, <2>1
    <3>. QED  BY <1>5, <1>6, <2>1, <3>1
  <2>. QED  BY <1>6, <2>1, <2>2
<1>9. TrimPrefix(text) = SubSeq(text, Min(I), Len(text))
  BY <1>2, <1>4, <1>7, Zenon DEF TrimPrefix, SelectInSeq
<1>. HIDE DEF I
<1>10. Min(I) \in I /\ \A i \in I : Min(I) <= i
  BY <1>7, MinIsIn
<1>11. PICK h \in Nat : h = Min(I)
  BY <1>7, <1>10
<1>12. h = k + 1
  <2>1. h <= k + 1 /\ k + 1 <= h
    BY <1>7, <1>8, <1>10, <1>11
  <2>. QED  BY <1>6, <2>1
<1>. QED  BY <1>9, <1>11, <1>12 DEF IsPiece

(* From k on a text is blank.                                              *)
IsBlankFrom(text, k) ==
    (\A i \in k + 1 .. Len(text) : text[i] = " ") /\ (k = 0 \/ text[k] # " ")

LEMMA TrimSuffixIs ==
    ASSUME NEW S, NEW text \in Seq(S), NEW k \in 0 .. Len(text), IsBlankFrom(text, k)
    PROVE  IsPiece(TrimSuffix(text), text, 1, k)
<1>1. PICK n \in Nat : n = Len(text)
  OBVIOUS
<1>2. PICK blank : blank = " "
  BY Zenon
<1>3. /\ k \in 0 .. n
      /\ \A i \in k + 1 .. n : text[i] = blank
      /\ k = 0 \/ text[k] # blank
  BY <1>1, <1>2, Zenon DEF IsBlankFrom
<1>. DEFINE I == {i \in 1 .. Len(text) : text[i] # blank}
<1>4. \A i \in I : i \in 1 .. k
  <2>. SUFFICES ASSUME NEW i \in 1 .. n, text[i] # blank, i \notin 1 .. k PROVE FALSE
    BY <1>1
  <2>1. i \in k + 1 .. n
    BY <1>3
  <2>. QED  BY <1>3, <2>1
<1>5. CASE k = 0
  <2>1. I = {}
    BY <1>4, <1>5
  <2>2. TrimSuffix(text) = SubSeq(text, 1, 0)
    BY <1>2, <2>1, Zenon DEF TrimSuffix, SelectLastInSeq
  <2>. QED  BY <1>5, <2>2 DEF IsPiece
<1>6. CASE k # 0
  <2>1. k \in I
    BY <1>1, <1>3, <1>6
  <2>2. I \subseteq 0 .. n /\ I # {}
    BY <1>1, <2>1
  <2>3. TrimSuffix(text) = SubSeq(text, 1, Max(I))
    BY <1>2, <2>2, Zenon DEF TrimSuffix, SelectLastInSeq
  <2>3a. \A i \in I : i \in Nat
    BY <1>1
  <2>. HIDE DEF I
  <2>4. Max(I) \in I /\ \A i \in I : Max(I) >= i
    BY <2>2, MaxIsIn
  <2>5. Max(I) = k
    <3>1. PICK h \in Nat : h = Max(I)
      BY <2>3a, <2>4
    <3>2. h >= k /\ h <= k
      BY <1>4, <2>1, <2>4, <3>1
    <3>. QED  BY <1>3, <3>1, <3>2
  <2>. QED  BY <2>3, <2>5 DEF IsPiece
<1>. QED  BY <1>5, <1>6

(* A text with spaces around it.                                           *)
IsBare(b, x, a) ==
    /\ \A i \in 1 .. Len(b) : b[i] = " "
    /\ \A i \in 1 .. Len(a) : a[i] = " "
    /\ x # <<>> => x[1] # " " /\ x[Len(x)] # " "

LEMMA TrimIs ==
    ASSUME NEW S, NEW b, NEW x, NEW a, IsBare(b, x, a),
           NEW y, NEW pad, Joined(S, y, b, x), Joined(S, pad, y, a)
    PROVE  Trim(pad) = x
<1>1. PICK z : Joined(S, z, x, a)
  BY DEF Joined
<1>2. Joined(S, pad, b, z)
  BY <1>1, JoinedBack
<1>3. /\ b \in Seq(S) /\ z \in Seq(S) /\ pad \in Seq(S) /\ Len(pad) = Len(b) + Len(z)
      /\ \A i \in 1 .. Len(b) : pad[i] = b[i]
      /\ \A i \in 1 .. Len(z) : pad[Len(b) + i] = z[i]
  BY ONLY <1>2, JoinedElements
<1>4. /\ x \in Seq(S) /\ a \in Seq(S) /\ Len(z) = Len(x) + Len(a)
      /\ \A i \in 1 .. Len(x) : z[i] = x[i]
      /\ \A i \in 1 .. Len(a) : z[Len(x) + i] = a[i]
  BY <1>1, JoinedElements
<1>5. PICK k \in Nat, m \in Nat, n \in Nat : k = Len(b) /\ m = Len(x) /\ n = Len(a)
  BY <1>3, <1>4
<1>5_. PICK blank : blank = " "
  BY Zenon
<1>5a. Len(z) = m + n /\ Len(pad) = k + (m + n)
  BY <1>3, <1>4, <1>5
<1>5b. /\ \A i \in 1 .. k : pad[i] = blank
       /\ \A i \in 1 .. m + n : pad[k + i] = z[i]
       /\ \A i \in 1 .. m : z[i] = x[i]
       /\ \A i \in 1 .. n : z[m + i] = blank
  <2>1. /\ \A i \in 1 .. k : b[i] = blank
        /\ \A i \in 1 .. n : a[i] = blank
    BY <1>5, <1>5_, Zenon DEF IsBare
  <2>. QED  BY <1>3, <1>4, <1>5, <1>5a, <2>1
<1>5c. x \in Seq(S) /\ z \in Seq(S) /\ pad \in Seq(S)
  BY <1>3, <1>4
<1>6. CASE x = <<>>
  <2>1. m = 0
    BY <1>5, <1>6, EmptySeq
  <2>2. PICK l \in Nat : l = k + n /\ l = Len(pad)
    BY <1>5a, <2>1
  <2>3. \A i \in 1 .. l : pad[i] = blank
    <3>. SUFFICES ASSUME NEW i \in 1 .. l PROVE pad[i] = blank
      OBVIOUS
    <3>1. CASE i <= k
      <4>1. i \in 1 .. k
        BY <3>1
      <4>. QED  BY <1>5b, <4>1
    <3>2. CASE ~(i <= k)
      <4>1. PICK j \in 1 .. n : j = i - k /\ k + j = i
        <5>1. i - k \in 1 .. n /\ k + (i - k) = i
          BY <2>2, <3>2
        <5>. QED  BY <5>1
      <4>2. j \in 1 .. m + n /\ m + j = j
        BY <2>1
      <4>3. pad[k + j] = z[j] /\ z[m + j] = blank
        BY <1>5b, <4>2
      <4>. QED  BY <4>1, <4>2, <4>3
    <3>. QED  BY <3>1, <3>2
  <2>4. PICK t : t = TrimPrefix(pad)
    OBVIOUS
  <2>5. IsPiece(t, pad, l + 1, l)
    <3>1. l \in 0 .. l
      OBVIOUS
    <3>1a. IsBlankTo(pad, l)
      BY <1>5_, <2>2, <2>3, Zenon DEF IsBlankTo
    <3>2. IsPiece(TrimPrefix(pad), pad, l + 1, Len(pad))
      BY <1>5c, <2>2, <3>1, <3>1a, TrimPrefixIs
    <3>. QED  BY <2>2, <2>4, <3>2
  <2>6. t = <<>>
    <3>1. l + 1 \in Int /\ l \in Int /\ l < l + 1
      OBVIOUS
    <3>2. SubSeq(pad, l + 1, l) = <<>>
      BY <3>1, SubSeqEmpty
    <3>. QED  BY <2>5, <3>2 DEF IsPiece
  <2>7. PICK v : v = TrimSuffix(t)
    OBVIOUS
  <2>8. v = <<>>
    <3>1. t \in Seq(S) /\ Len(t) = 0
      BY <2>6, EmptySeq
    <3>2. 0 \in 0 .. Len(t) /\ \A i \in 0 + 1 .. Len(t) : t[i] = blank
      BY <3>1
    <3>2a. IsBlankFrom(t, 0)
      BY <1>5_, <3>2, Zenon DEF IsBlankFrom
    <3>3. IsPiece(TrimSuffix(t), t, 1, 0)
      BY <3>1, <3>2, <3>2a, TrimSuffixIs
    <3>4. SubSeq(t, 1, 0) = <<>>
      BY SubSeqEmpty
    <3>. QED  BY <2>7, <3>3, <3>4 DEF IsPiece
  <2>. QED  BY <1>6, <2>4, <2>7, <2>8 DEF Trim
<1>7. CASE x # <<>>
  <2>1. m # 0 /\ x[1] # blank /\ x[m] # blank
    BY <1>4, <1>5, <1>5_, <1>7, EmptySeq, Zenon DEF IsBare
  <2>2. PICK t : t = TrimPrefix(pad)
    OBVIOUS
  <2>3. t = z
    <3>1. pad[k + 1] # blank
      <4>1. 1 \in 1 .. m /\ 1 \in 1 .. m + n
        BY <2>1
      <4>. QED  BY <1>5b, <2>1, <4>1
    <3>2. k \in 0 .. k + (m + n)
      OBVIOUS
    <3>2a. IsBlankTo(pad, k)
      BY <1>5_, <1>5b, <3>1, Zenon DEF IsBlankTo
    <3>3. IsPiece(TrimPrefix(pad), pad, k + 1, Len(pad))
      BY <1>5a, <1>5c, <3>2, <3>2a, TrimPrefixIs
    <3>. QED  BY <1>2, <1>5, <2>2, <3>3, BackIs
  <2>4. PICK v : v = TrimSuffix(z)
    OBVIOUS
  <2>5. IsPiece(v, z, 1, m) /\ m \in 0 .. Len(z)
    <3>1. m \in 0 .. m + n /\ m \in 1 .. m
      BY <2>1
    <3>2. z[m] # blank
      BY <1>5b, <2>1, <3>1
    <3>3. \A i \in m + 1 .. m + n : z[i] = blank
      <4>. SUFFICES ASSUME NEW i \in m + 1 .. m + n PROVE z[i] = blank
        OBVIOUS
      <4>1. PICK j \in 1 .. n : m + j = i
        <5>1. i - m \in 1 .. n /\ m + (i - m) = i
          OBVIOUS
        <5>. QED  BY <5>1
      <4>. QED  BY <1>5b, <4>1
    <3>3a. IsBlankFrom(z, m)
      BY <1>5_, <1>5a, <3>2, <3>3, Zenon DEF IsBlankFrom
    <3>4. IsPiece(TrimSuffix(z), z, 1, m)
      BY <1>5a, <1>5c, <3>1, <3>3a, TrimSuffixIs
    <3>. QED  BY <1>5a, <2>4, <3>1, <3>4
  <2>6. IsCut(S, v, z) /\ Len(v) = m
    BY <1>5c, <2>5, CutIs
  <2>7. IsCut(S, x, z)
    BY <1>1, FrontIsCut
  <2>8. v = x
    BY <1>5, <2>6, <2>7, SameCuts
  <2>. QED  BY <2>2, <2>3, <2>4, <2>8 DEF Trim
<1>. QED  BY <1>6, <1>7

(* What is before and behind the first of a symbol.                        *)
IsSplit(S, line, x, d, pad) ==
    /\ d \in Seq(S) /\ Len(d) = 1 /\ \A i \in 1 .. Len(x) : x[i] # d[1]
    /\ \E y : Joined(S, line, x, y) /\ Joined(S, y, d, pad)

LEMMA SplitAt ==
    ASSUME NEW S, NEW line, NEW x, NEW d, NEW pad, IsSplit(S, line, x, d, pad)
    PROVE  Find(line, 0, d) = Len(x) /\ Has(line, d) /\ Before(line, d) = x /\ After(line, d) = pad
<1>1. PICK y : Joined(S, line, x, y) /\ Joined(S, y, d, pad)
  BY DEF IsSplit
<1>2. d \in Seq(S) /\ Len(d) = 1 /\ \A i \in 1 .. Len(x) : x[i] # d[1]
  BY DEF IsSplit
<1>3. line \in Seq(S) /\ x \in Seq(S) /\ y \in Seq(S)
  BY <1>1, JoinedElements
<1>4. PICK n \in Nat, k \in Nat : n = Len(line) /\ k = Len(x)
  BY <1>3
<1>5. ReadsAt(line, 0, line) /\ 0 \in Nat
  BY <1>3, ReadsItself
<1>6. ReadsAt(line, 0, x) /\ ReadsAt(line, 0 + Len(x), y)
  BY <1>1, <1>3, <1>5, ReadsBoth
<1>7. ReadsAt(line, k, y)
  BY <1>4, <1>6
<1>8. ReadsAt(line, k, d)
  BY <1>1, <1>3, <1>7, ReadsBoth
<1>9. \A i \in 0 .. k - 1 : line[i + 1] # d[1]
  <2>. SUFFICES ASSUME NEW i \in 0 .. k - 1 PROVE line[i + 1] # d[1]
    OBVIOUS
  <2>1. i + 1 \in 1 .. k
    OBVIOUS
  <2>2. line[i + 1] = x[i + 1]
    BY <1>1, <1>4, <2>1, JoinedElements
  <2>. QED  BY <1>2, <1>4, <2>1, <2>2
<1>10. d # <<>>
  BY <1>2, EmptySeq
<1>11. IsFirst(S, line, d, 0, k)
  BY <1>2, <1>3, <1>8, <1>9, <1>10 DEF IsFirst
<1>12. Find(line, 0, d) = k
  BY <1>11, FindIs
<1>13. Before(line, d) = x
  <2>1. PICK v : v = Before(line, d)
    OBVIOUS
  <2>2. IsPiece(v, line, 1, k)
    BY <1>12, <2>1 DEF Before, IsPiece
  <2>3. IsCut(S, x, line)
    BY <1>1, FrontIsCut
  <2>4. k \in 0 .. Len(line)
    BY <1>4, <2>3 DEF IsCut
  <2>5. IsCut(S, v, line) /\ Len(v) = k
    BY <1>3, <2>2, <2>4, CutIs
  <2>. QED  BY <1>4, <2>1, <2>3, <2>5, SameCuts
<1>14. After(line, d) = pad
  <2>1. PICK v : v = After(line, d)
    OBVIOUS
  <2>2. PICK a : Joined(S, a, x, d)
    BY <1>2, <1>3 DEF Joined
  <2>3. Joined(S, line, a, pad)
    BY <1>1, <2>2, JoinedThree
  <2>4. Len(a) = k + 1
    <3>1. Len(a) = Len(x) + Len(d)
      BY <2>2, JoinedElements
    <3>. QED  BY <1>2, <1>4, <3>1
  <2>5. IsPiece(v, line, Len(a) + 1, Len(line))
    <3>1. After(line, d) = SubSeq(line, k + 1 + 1, Len(line))
      BY <1>2, <1>12 DEF After
    <3>. QED  BY <2>1, <2>4, <3>1 DEF IsPiece
  <2>6. v = pad
    BY <2>3, <2>5, BackIs
  <2>. QED  BY <2>1, <2>6
<1>15. Has(line, d)
  <2>1. k # NotFound
    BY DEF NotFound
  <2>. QED  BY <1>12, <2>1 DEF Has
<1>. QED  BY <1>4, <1>12, <1>13, <1>14, <1>15

(* The header of a line: its key, and its value without the spaces.        *)
LEMMA HeaderIsRead ==
    ASSUME NEW S, ":" \in S, NEW h, AreParts(S, h), IsHeader(h),
           NEW line, line = HeaderLine(h)
    PROVE  /\ Has(line, <<":">>) /\ Before(line, <<":">>) = h.key
           /\ Trim(After(line, <<":">>)) = h.val
<1>1. PICK d, y, b, pad : /\ d = <<":">> /\ d \in Seq(S) /\ Len(d) = 1 /\ d[1] = ":"
                          /\ Joined(S, HeaderLine(h), h.key, y) /\ Joined(S, y, d, pad)
                          /\ Joined(S, b, h.before, h.val) /\ Joined(S, pad, b, h.after)
  BY HeaderIsKeyAndPadded
<1>2. h.key \in Seq(S) /\ h.before \in Seq(S) /\ h.val \in Seq(S) /\ h.after \in Seq(S)
  BY DEF AreParts
<1>3. PICK blank, end : blank = " " /\ end = "\n"
  BY Zenon
<1>4. /\ HasNone(h.key, {":", end})
      /\ ToSet(h.before) \subseteq {blank} /\ ToSet(h.after) \subseteq {blank}
      /\ h.val # <<>> => Head(h.val) # blank /\ Last(h.val) # blank
  BY <1>3, Zenon DEF IsHeader
<1>5. \A i \in 1 .. Len(h.key) : h.key[i] # d[1]
  <2>1. \A i \in 1 .. Len(h.key) : h.key[i] \notin {":", end}
    BY <1>2, <1>4, NoneOf
  <2>. QED  BY <1>1, <2>1
<1>6. IsSplit(S, line, h.key, d, pad)
  BY <1>1, <1>5 DEF IsSplit
<1>7. Has(line, d) /\ Before(line, d) = h.key /\ After(line, d) = pad
  BY <1>6, SplitAt
<1>8. IsBare(h.before, h.val, h.after)
  <2>1. \A i \in 1 .. Len(h.before) : h.before[i] = blank
    <3>1. \A i \in 1 .. Len(h.before) : h.before[i] \in {blank}
      BY <1>2, <1>4, AllOf
    <3>. QED  BY <3>1
  <2>2. \A i \in 1 .. Len(h.after) : h.after[i] = blank
    <3>1. \A i \in 1 .. Len(h.after) : h.after[i] \in {blank}
      BY <1>2, <1>4, AllOf
    <3>. QED  BY <3>1
  <2>3. h.val # <<>> => h.val[1] # blank /\ h.val[Len(h.val)] # blank
    BY <1>2, <1>4 DEF Last
  <2>. QED  BY <1>3, <2>1, <2>2, <2>3, Zenon DEF IsBare
<1>9. Trim(pad) = h.val
  BY <1>1, <1>8, TrimIs
<1>. QED  BY <1>1, <1>7, <1>9

(* A line without a colon is none.                                         *)
LEMMA NoHeader ==
    ASSUME NEW S, ":" \in S, NEW line \in Seq(S), \A i \in 1 .. Len(line) : line[i] # ":"
    PROVE  ~Has(line, <<":">>)
<1>1. PICK d : d = <<":">> /\ d \in Seq(S) /\ d # <<>> /\ d[1] = ":"
  <2>1. <<":">> \in Seq(S) /\ <<":">> # <<>> /\ <<":">>[1] = ":"
    BY OneElement
  <2>. QED  BY <2>1
<1>2. PICK n \in Nat : n = Len(line)
  OBVIOUS
<1>3. \A i \in 0 .. n - 1 : line[i + 1] # d[1]
  <2>. SUFFICES ASSUME NEW i \in 0 .. n - 1 PROVE line[i + 1] # d[1]
    OBVIOUS
  <2>1. i + 1 \in 1 .. n
    OBVIOUS
  <2>. QED  BY <1>1, <1>2, <2>1
<1>4. \A i \in 0 .. Len(line) - 1 : line[i + 1] # d[1]
  BY <1>2, <1>3
<1>5. Find(line, 0, d) = NotFound
  BY <1>1, <1>4, FindsNothing
<1>. QED  BY <1>1, <1>5 DEF Has

AreHeaders(hs, p, m) ==
    /\ m \in 0 .. Len(p.headers) /\ DOMAIN hs = 1 .. m
    /\ \A k \in 1 .. m : hs[k].key = p.headers[k].key /\ hs[k].val = p.headers[k].val

(* Where the headers are over.                                             *)
OverOf(ls) == SelectInSubSeq(ls, 2, Len(ls), LAMBDA l : ~Has(l, <<":">>))

LEMMA OverIs ==
    ASSUME NEW p, IsInParts(p), NEW ls, NEW m, AreFirstLines(p, ls, m)
    PROVE  OverOf(ls) = IF Len(ls) <= m + 1 THEN 0 ELSE m + 2
<1>0. PICK T : T = Seq(Chars)
  OBVIOUS
<1>1. /\ ls \in Seq(T) /\ m \in 0 .. Len(p.headers) /\ Len(p.headers) \in Nat
      /\ \A k \in 1 .. m : k + 1 <= Len(ls) /\ ls[k + 1] = HeaderLine(p.headers[k])
  BY <1>0 DEF AreFirstLines, IsInParts
<1>2. PICK n \in Nat : n = Len(ls)
  BY <1>1
<1>3. m \in Nat
  BY <1>1
<1>5. ASSUME NEW k \in 1 .. m PROVE Has(ls[k + 1], <<":">>)
  <2>1. ":" \in Chars
    BY CharsHave, Zenon
  <2>2. k \in 1 .. Len(p.headers)
    BY <1>1
  <2>3. AreParts(Chars, p.headers[k]) /\ IsHeader(p.headers[k])
    BY <2>2 DEF IsInParts
  <2>4. PICK line : line = ls[k + 1] /\ line = HeaderLine(p.headers[k])
    BY <1>1
  <2>5. Has(line, <<":">>)
    BY <2>1, <2>3, <2>4, HeaderIsRead
  <2>. QED  BY <2>4, <2>5
<1>. DEFINE I == {i \in 2 .. Len(ls) : ~Has(ls[i], <<":">>)}
<1>6. ASSUME NEW i \in I PROVE i \in 2 .. n /\ m + 2 <= i
  <2>1. i \in 2 .. n /\ ~Has(ls[i], <<":">>)
    BY <1>2
  <2>. HIDE DEF I
  <2>2. ~(i <= m + 1)
    <3>. SUFFICES ASSUME i <= m + 1 PROVE FALSE
      OBVIOUS
    <3>1. PICK k \in 1 .. m : i = k + 1
      <4>1. i - 1 \in 1 .. m /\ i = (i - 1) + 1
        BY <1>3, <2>1
      <4>. QED  BY <4>1
    <3>. QED  BY <1>5, <2>1, <3>1
  <2>. QED  BY <1>3, <2>1, <2>2
<1>7. CASE n <= m + 1
  <2>1. I = {}
    <3>1. \A i \in I : FALSE
      <4>. HIDE DEF I
      <4>. QED  BY <1>3, <1>6, <1>7
    <3>. QED  BY <3>1
  <2>2. OverOf(ls) = 0
    BY <2>1, Zenon DEF OverOf, SelectInSubSeq
  <2>. QED  BY <1>2, <1>7, <2>2
<1>8. CASE ~(n <= m + 1)
  <2>1. PICK l \in Nat : l = m + 2 /\ l \in 2 .. n
    <3>1. m + 2 \in Nat /\ m + 2 \in 2 .. n
      BY <1>2, <1>3, <1>8, SMT
    <3>. QED  BY <3>1, Zenon
  <2>2. l \in I
    <3>1. ":" \in Chars
      BY CharsHave, Zenon
    <3>2. PICK line \in Seq(Chars) : line = ls[l]
      BY <1>0, <1>1, <1>2, <2>1
    <3>3. \A i \in 1 .. Len(line) : line[i] # ":"
      <4>1. Len(ls) <= m + 1 \/ \A i \in 1 .. Len(ls[m + 2]) : ls[m + 2][i] # ":"
        BY DEF AreFirstLines
      <4>. QED  BY <1>2, <1>8, <2>1, <3>2, <4>1, Zenon
    <3>4. ~Has(line, <<":">>)
      BY <3>1, <3>3, NoHeader
    <3>. QED  BY <1>2, <2>1, <3>2, <3>4
  <2>3. I # {} /\ I \subseteq Nat
    BY <1>2, <2>2
  <2>4. OverOf(ls) = Min(I)
    BY <2>3, Zenon DEF OverOf, SelectInSubSeq
  <2>. HIDE DEF I
  <2>5. Min(I) \in I /\ \A i \in I : Min(I) <= i
    BY <2>3, MinIsIn
  <2>6. PICK h \in Nat : h = Min(I)
    BY <2>3, <2>5
  <2>7. h <= l /\ l <= h
    BY <1>6, <2>1, <2>2, <2>5, <2>6
  <2>8. h = l
    BY <2>1, <2>7
  <2>. QED  BY <1>2, <1>8, <2>1, <2>4, <2>6, <2>8
<1>. QED  BY <1>7, <1>8

(* The lines behind the first, up to the m-th header.                      *)
LEMMA HeaderLinesAre ==
    ASSUME NEW p, IsInParts(p), NEW ls, NEW m, AreFirstLines(p, ls, m),
           NEW hs, IsPiece(hs, ls, 2, IF OverOf(ls) = 0 THEN Len(ls) ELSE OverOf(ls) - 1)
    PROVE  DOMAIN hs = 1 .. m /\ \A k \in 1 .. m : hs[k] = HeaderLine(p.headers[k])
<1>0. PICK T : T = Seq(Chars)
  OBVIOUS
<1>1. /\ ls \in Seq(T) /\ m \in 0 .. Len(p.headers) /\ Len(p.headers) \in Nat
      /\ \A k \in 1 .. m : k + 1 <= Len(ls) /\ ls[k + 1] = HeaderLine(p.headers[k])
  BY <1>0 DEF AreFirstLines, IsInParts
<1>2. PICK n \in Nat : n = Len(ls)
  BY <1>1
<1>3. m \in Nat
  BY <1>1
<1>4. m = 0 \/ m + 1 <= n
  <2>1. m # 0 => m \in 1 .. m
    BY <1>3
  <2>. QED  BY <1>1, <1>2, <2>1
<1>5. PICK over : over = OverOf(ls) /\ over = IF n <= m + 1 THEN 0 ELSE m + 2
  BY <1>2, OverIs
<1>6. PICK to \in Int : to = (IF over = 0 THEN n ELSE over - 1)
  <2>1. over \in Int
    BY <1>3, <1>5
  <2>. QED  BY <1>2, <2>1
<1>7. to <= n /\ (to = m + 1 \/ (m = 0 /\ to = 0))
  BY <1>2, <1>3, <1>4, <1>5, <1>6
<1>8. hs = SubSeq(ls, 2, to)
  BY <1>2, <1>5, <1>6 DEF IsPiece
<1>9. /\ hs \in Seq(T) /\ Len(hs) = (IF 2 <= to THEN to - 2 + 1 ELSE 0)
      /\ \A i \in 1 .. to - 2 + 1 : hs[i] = ls[2 + i - 1]
  <2>1. \A i \in 2 .. to : ls[i] \in T
    BY <1>1, <1>2, <1>7
  <2>2. PICK e \in Int : e = 2
    OBVIOUS
  <2>. QED  BY <1>8, <2>1, <2>2, SubSeqProperties
<1>10. Len(hs) = m /\ (m # 0 => to - 2 + 1 = m)
  BY <1>3, <1>7, <1>9
<1>11. DOMAIN hs = 1 .. m
  BY <1>9, <1>10
<1>12. ASSUME NEW k \in 1 .. m PROVE hs[k] = HeaderLine(p.headers[k])
  <2>1. k \in 1 .. to - 2 + 1 /\ 2 + k - 1 = k + 1
    BY <1>3, <1>10
  <2>2. hs[k] = ls[k + 1]
    BY <1>9, <2>1
  <2>. QED  BY <1>1, <2>2
<1>. QED  BY <1>11, <1>12

LEMMA HeadersAre ==
    ASSUME NEW p, IsInParts(p), NEW ls, NEW m, AreFirstLines(p, ls, m)
    PROVE  AreHeaders(HeadersOf(ls), p, m)
<1>. DEFINE over == SelectInSubSeq(ls, 2, Len(ls), LAMBDA l : ~Has(l, <<":">>))
            hs == SubSeq(ls, 2, IF over = 0 THEN Len(ls) ELSE over - 1)
<1>1. HeadersOf(ls) = [k \in DOMAIN hs |-> [key |-> Before(hs[k], <<":">>),
                                           val |-> Trim(After(hs[k], <<":">>))]]
  BY DEF HeadersOf
<1>2. DOMAIN hs = 1 .. m /\ \A k \in 1 .. m : hs[k] = HeaderLine(p.headers[k])
  <2>1. IsPiece(hs, ls, 2, IF OverOf(ls) = 0 THEN Len(ls) ELSE OverOf(ls) - 1)
    BY Zenon DEF IsPiece, OverOf
  <2>. HIDE DEF hs
  <2>. QED  BY <2>1, HeaderLinesAre
<1>. HIDE DEF hs
<1>3. PICK rs : rs = HeadersOf(ls)
  OBVIOUS
<1>4. DOMAIN rs = 1 .. m
  BY <1>1, <1>2, <1>3
<1>5. \A k \in 1 .. m : /\ rs[k].key = Before(hs[k], <<":">>)
                        /\ rs[k].val = Trim(After(hs[k], <<":">>))
  BY <1>1, <1>2, <1>3
<1>6. m \in 0 .. Len(p.headers) /\ Len(p.headers) \in Nat
  BY DEF AreFirstLines, IsInParts
<1>7. ASSUME NEW k \in 1 .. m
      PROVE  rs[k].key = p.headers[k].key /\ rs[k].val = p.headers[k].val
  <2>1. ":" \in Chars
    BY CharsHave, Zenon
  <2>2. k \in 1 .. Len(p.headers)
    BY <1>6
  <2>3. AreParts(Chars, p.headers[k]) /\ IsHeader(p.headers[k])
    BY <2>2 DEF IsInParts
  <2>4. PICK line : line = hs[k] /\ line = HeaderLine(p.headers[k])
    BY <1>2
  <2>5. Before(line, <<":">>) = p.headers[k].key /\ Trim(After(line, <<":">>)) = p.headers[k].val
    BY <2>1, <2>3, <2>4, HeaderIsRead
  <2>. QED  BY <1>5, <2>4, <2>5
<1>. QED  BY <1>3, <1>4, <1>6, <1>7 DEF AreHeaders

-----------------------------------------------------------------------------
(* The first line, and fields that are sent more than once.                *)

(* "HTTP/1.1 200 OK" is a success.                                         *)
StatusParts(s, n, blank, code) ==
    /\ blank = " " /\ code # blank
    /\ n \in 2 .. Len(s) - 2
    /\ s[1] # blank /\ \A i \in 2 .. n : s[i] = blank
    /\ s[n + 1] = code /\ s[n + 2] = blank

LEMMA FirstBlank ==
    ASSUME NEW S, NEW s \in Seq(S), Len(s) >= 2, NEW blank, s[1] # blank, s[2] = blank
    PROVE  Find(s, 0, <<blank>>) = 1
<1>1. PICK n \in Nat : n = Len(s) /\ n >= 2
  OBVIOUS
<1>2. blank \in S
  BY <1>1
<1>3. PICK d : d = <<blank>> /\ d \in Seq(S) /\ d # <<>> /\ d[1] = blank /\ Len(d) = 1
  <2>1. <<blank>> \in Seq(S) /\ <<blank>> # <<>> /\ <<blank>>[1] = blank /\ Len(<<blank>>) = 1
    BY <1>2, OneElement
  <2>. QED  BY <2>1
<1>4. ReadsAt(s, 1, d)
  <2>1. \A i \in 1 .. 1 : s[1 + i] = d[i]
    BY <1>3
  <2>. QED  BY <1>1, <1>3, <2>1 DEF ReadsAt
<1>5. \A i \in 0 .. 1 - 1 : s[i + 1] # d[1]
  BY <1>3
<1>6. IsFirst(S, s, d, 0, 1)
  BY <1>3, <1>4, <1>5 DEF IsFirst
<1>. QED  BY <1>3, <1>6, FindIs

LEMMA StatusIsRead ==
    ASSUME NEW S, NEW s \in Seq(S), NEW n, NEW blank, NEW code, StatusParts(s, n, blank, code),
           NEW d, d = <<blank>>
    PROVE  /\ Has(s, d) /\ Has(TrimPrefix(After(s, d)), d)
           /\ Before(TrimPrefix(After(s, d)), d) = <<code>>
<1>0. /\ code # blank /\ n \in 2 .. Len(s) - 2
      /\ s[1] # blank /\ \A i \in 2 .. n : s[i] = blank
      /\ s[n + 1] = code /\ s[n + 2] = blank
  BY Zenon DEF StatusParts
<1>1. PICK k \in Nat, m \in Nat, l \in Nat : k + 2 = n /\ m + 2 = Len(s) /\ k + l = m /\ l >= 2
  <2>1. /\ n - 2 \in Nat /\ Len(s) - 2 \in Nat /\ (Len(s) - 2) - (n - 2) \in Nat
        /\ (n - 2) + 2 = n /\ (Len(s) - 2) + 2 = Len(s)
        /\ (n - 2) + ((Len(s) - 2) - (n - 2)) = Len(s) - 2
        /\ (Len(s) - 2) - (n - 2) >= 2
    BY <1>0
  <2>. QED  BY <2>1, Zenon
<1>2. Len(s) >= 2 /\ n \in Nat
  BY <1>1
<1>3. s[2] = blank
  <2>1. 2 \in 2 .. n
    BY <1>0
  <2>. QED  BY <1>0, <2>1
<1>4. Find(s, 0, d) = 1
  BY <1>0, <1>2, <1>3, FirstBlank
<1>5. Len(d) = 1
  OBVIOUS
<1>6. PICK r : r = After(s, d) /\ r = SubSeq(s, 3, Len(s))
  <2>1. After(s, d) = SubSeq(s, 1 + 1 + 1, Len(s))
    BY <1>4, <1>5 DEF After
  <2>. QED  BY <2>1
<1>7. r \in Seq(S) /\ Len(r) = m /\ \A i \in 1 .. m : r[i] = s[2 + i]
  <2>1. PICK a \in Int, b \in Int : a = 3 /\ b = Len(s)
    OBVIOUS
  <2>2. \A i \in a .. b : s[i] \in S
    BY <2>1
  <2>3. /\ r \in Seq(S) /\ Len(r) = (IF a <= b THEN b - a + 1 ELSE 0)
        /\ \A i \in 1 .. b - a + 1 : r[i] = s[a + i - 1]
    <3>1. r = SubSeq(s, a, b)
      BY <1>6, <2>1
    <3>. QED  BY <2>1, <2>2, <3>1, SubSeqProperties
  <2>4. a <= b /\ b - a + 1 = m /\ \A i \in 1 .. m : a + i - 1 = 2 + i
    BY <1>1, <2>1
  <2>. QED  BY <2>3, <2>4
<1>8. \A i \in 1 .. k : r[i] = blank
  <2>. SUFFICES ASSUME NEW i \in 1 .. k PROVE r[i] = blank
    OBVIOUS
  <2>1. i \in 1 .. m /\ 2 + i \in 2 .. n
    BY <1>1
  <2>. QED  BY <1>0, <1>7, <2>1
<1>9. r[k + 1] = code /\ r[k + 2] = blank
  <2>1. k + 1 \in 1 .. m /\ k + 2 \in 1 .. m /\ 2 + (k + 1) = n + 1 /\ 2 + (k + 2) = n + 2
    BY <1>1, <1>2
  <2>. QED  BY <1>0, <1>7, <2>1
<1>10. PICK t : t = TrimPrefix(r) /\ IsPiece(t, r, k + 1, k + l)
  <2>1. IsBlankTo(r, k)
    <3>1. r[k + 1] # blank
      BY <1>0, <1>9
    <3>2. blank = " "
      BY Zenon DEF StatusParts
    <3>. QED  BY <1>8, <3>1, <3>2, Zenon DEF IsBlankTo
  <2>2. k \in 0 .. Len(r) /\ Len(r) = k + l
    BY <1>1, <1>7
  <2>3. IsPiece(TrimPrefix(r), r, k + 1, Len(r))
    BY <1>7, <2>1, <2>2, TrimPrefixIs
  <2>. QED  BY <2>2, <2>3
<1>11. t \in Seq(S) /\ Len(t) = l /\ t[1] = code /\ t[2] = blank
  <2>1. PICK a \in Int, b \in Int : a = k + 1 /\ b = k + l
    BY <1>1
  <2>2. \A i \in a .. b : r[i] \in S
    BY <1>1, <1>7, <2>1
  <2>3. /\ t \in Seq(S) /\ Len(t) = (IF a <= b THEN b - a + 1 ELSE 0)
        /\ \A i \in 1 .. b - a + 1 : t[i] = r[a + i - 1]
    BY <1>10, <2>1, <2>2, SubSeqProperties DEF IsPiece
  <2>4. /\ a <= b /\ b - a + 1 = l /\ a + 1 - 1 = k + 1 /\ a + 2 - 1 = k + 2
        /\ 1 \in 1 .. l /\ 2 \in 1 .. l
    BY <1>1, <2>1
  <2>. QED  BY <1>9, <2>3, <2>4
<1>12. Find(t, 0, d) = 1
  <2>1. Len(t) >= 2
    BY <1>1, <1>11
  <2>2. t \in Seq(S) /\ t[1] # blank /\ t[2] = blank
    BY <1>0, <1>11
  <2>. QED  BY <2>1, <2>2, FirstBlank
<1>13. Before(t, d) = <<code>>
  <2>1. PICK v : v = Before(t, d)
    OBVIOUS
  <2>2. IsPiece(v, t, 1, 1)
    BY <1>12, <2>1 DEF Before, IsPiece
  <2>3. 1 \in 0 .. Len(t)
    BY <1>1, <1>11
  <2>4. IsCut(S, v, t) /\ Len(v) = 1
    BY <1>11, <2>2, <2>3, CutIs
  <2>5. v \in Seq(S) /\ v[1] = t[1] /\ t[1] \in S
    BY <2>3, <2>4 DEF IsCut
  <2>6. v = <<t[1]>>
    BY <2>4, <2>5, IsOne
  <2>. QED  BY <1>11, <2>1, <2>6
<1>14. 1 # NotFound
  BY DEF NotFound
<1>15. Has(s, d) /\ Has(t, d)
  BY <1>4, <1>12, <1>14 DEF Has
<1>. QED  BY <1>6, <1>10, <1>13, <1>15

LEMMA StatusIsSuccess ==
    ASSUME NEW s \in Seq(Chars), IsStatus(s)
    PROVE  IsSuccess(s)
<1>1. PICK blank, code : blank = " " /\ code = "200" /\ code # blank
  BY Separators, Zenon
<1>2. PICK n \in 2 .. Len(s) - 2 :
         /\ s[1] \in Spellings["HTTP/1.1"] /\ \A i \in 2 .. n : s[i] = blank
         /\ s[n + 1] = code /\ s[n + 2] = blank
  BY <1>1, Zenon DEF IsStatus
<1>3. s[1] # blank
  <2>1. "HTTP/1.1" \in DOMAIN Spellings
    BY IgdUrlsAssumption
  <2>2. Spellings["HTTP/1.1"] \cap {":", " ", "\n"} = {}
    BY <2>1, TextAssumption, Zenon
  <2>3. " " \notin Spellings["HTTP/1.1"]
    BY <2>2, Zenon
  <2>. QED  BY <1>1, <1>2, <2>3, Zenon
<1>4. StatusParts(s, n, blank, code)
  BY <1>1, <1>2, <1>3, Zenon DEF StatusParts
<1>5. PICK d : d = <<blank>>
  OBVIOUS
<1>6. /\ Has(s, d) /\ Has(TrimPrefix(After(s, d)), d)
      /\ Before(TrimPrefix(After(s, d)), d) = <<code>>
  BY <1>1, <1>4, <1>5, StatusIsRead, Zenon
<1>7. s # <<>>
  <2>1. Len(s) # 0
    BY <1>2
  <2>. QED  BY <2>1, EmptySeq
<1>8. IEquals(<<s[1]>>, "HTTP/1.1")
  <2>1. Len(<<s[1]>>) = 1 /\ <<s[1]>>[1] = s[1]
    OBVIOUS
  <2>. QED  BY <1>2, <2>1, Zenon DEF IEquals
<1>9. TrimPrefix(IF Has(s, d) THEN After(s, d) ELSE s) = TrimPrefix(After(s, d))
  BY <1>6
<1>10. <<code>> = <<"200">> /\ d = <<" ">>
  BY <1>1, <1>5, Zenon
<1>. QED  BY <1>6, <1>7, <1>8, <1>9, <1>10, Zenon DEF IsSuccess

LEMMA LastOfSame ==
    ASSUME NEW T, NEW x, NEW c, AreAll(x, T, c)
    PROVE  LastOf(x) = IF x = <<>> THEN <<>> ELSE <<c>>
<1>1. PICK k \in Nat : k = Len(x) /\ x \in Seq(T) /\ \A j \in 1 .. k : x[j] = c
  BY DEF AreAll
<1>2. CASE x # <<>>
  <2>1. k # 0
    BY <1>1, <1>2, EmptySeq
  <2>2. k \in 1 .. k
    BY <2>1
  <2>3. Last(x) = c
    BY <1>1, <2>2 DEF Last
  <2>. QED  BY <1>2, <2>3, Zenon DEF LastOf
<1>3. CASE x = <<>>
  BY <1>3, Zenon DEF LastOf
<1>. QED  BY <1>2, <1>3

-----------------------------------------------------------------------------
(* The UUIDs in a USN: UuidsOf goes from colon to colon.                   *)

(* The next d behind offset i is at c.                                     *)
NextAt(t, d, i, c) ==
    c \in i .. Len(t) - 1 /\ t[c + 1] = d /\ \A k \in i + 1 .. c : t[k] # d

LEMMA NextIs ==
    ASSUME NEW S, NEW t \in Seq(S), NEW d \in S, NEW i \in 0 .. Len(t)
    PROVE  \/ Find(t, i, <<d>>) = NotFound /\ \A k \in i + 1 .. Len(t) : t[k] # d
           \/ NextAt(t, d, i, Find(t, i, <<d>>))
<1>1. PICK n \in Nat : n = Len(t)
  OBVIOUS
<1>2. PICK e : e = <<d>> /\ e \in Seq(S) /\ e # <<>> /\ e[1] = d /\ Len(e) = 1
  <2>1. <<d>> \in Seq(S) /\ <<d>> # <<>> /\ <<d>>[1] = d /\ Len(<<d>>) = 1
    BY OneElement
  <2>. QED  BY <2>1
<1>. DEFINE I == {k \in i + 1 .. n : t[k] = d}
<1>3. CASE I = {}
  <2>1. \A k \in i + 1 .. n : t[k] # d
    BY <1>3
  <2>2. \A k \in i .. n - 1 : t[k + 1] # e[1]
    <3>. SUFFICES ASSUME NEW k \in i .. n - 1 PROVE t[k + 1] # e[1]
      OBVIOUS
    <3>1. k + 1 \in i + 1 .. n
      BY <1>1
    <3>. QED  BY <1>2, <2>1, <3>1
  <2>3. Find(t, i, e) = NotFound
    <3>1. i \in Nat /\ \A k \in i .. Len(t) - 1 : t[k + 1] # e[1]
      BY <1>1, <2>2
    <3>. QED  BY <1>2, <3>1, FindsNothing
  <2>. QED  BY <1>1, <1>2, <2>1, <2>3
<1>4. CASE I # {}
  <2>1. I \subseteq Nat /\ I \subseteq i + 1 .. n
    BY <1>1
  <2>1a. \A k \in i + 1 .. n : k \in I <=> t[k] = d
    OBVIOUS
  <2>. HIDE DEF I
  <2>2. Min(I) \in I /\ \A k \in I : Min(I) <= k
    BY <1>4, <2>1, MinIsIn
  <2>3. PICK m \in i + 1 .. n : m = Min(I)
    BY <2>1, <2>2
  <2>4. PICK c \in Nat : m = c + 1 /\ c \in i .. n - 1
    <3>1. m - 1 \in Nat /\ m = (m - 1) + 1 /\ m - 1 \in i .. n - 1
      BY <1>1, <2>3
    <3>. QED  BY <3>1
  <2>5. t[c + 1] = d
    BY <2>1a, <2>2, <2>3, <2>4
  <2>6. \A k \in i + 1 .. c : t[k] # d
    <3>. SUFFICES ASSUME NEW k \in i + 1 .. c PROVE t[k] # d
      OBVIOUS
    <3>1. k \in i + 1 .. n /\ ~(c + 1 <= k)
      BY <1>1, <2>4
    <3>. QED  BY <2>1a, <2>2, <2>3, <2>4, <3>1
  <2>7. ReadsAt(t, c, e)
    <3>1. \A k \in 1 .. 1 : t[c + k] = e[k]
      BY <1>2, <2>5
    <3>2. c + 1 <= n
      BY <1>1, <2>4
    <3>. QED  BY <1>1, <1>2, <3>1, <3>2 DEF ReadsAt
  <2>8. \A k \in i .. c - 1 : t[k + 1] # e[1]
    <3>. SUFFICES ASSUME NEW k \in i .. c - 1 PROVE t[k + 1] # e[1]
      OBVIOUS
    <3>1. k + 1 \in i + 1 .. c
      BY <2>4
    <3>. QED  BY <1>2, <2>6, <3>1
  <2>9. IsFirst(S, t, e, i, c)
    <3>1. i \in Nat /\ i <= c
      BY <1>1, <2>4
    <3>. QED  BY <1>2, <2>7, <2>8, <3>1 DEF IsFirst
  <2>10. Find(t, i, e) = c
    BY <2>9, FindIs
  <2>11. NextAt(t, d, i, c)
    BY <1>1, <2>4, <2>5, <2>6 DEF NextAt
  <2>. QED  BY <1>2, <2>10, <2>11
<1>. QED  BY <1>3, <1>4

(* One step of the search, given what is found later.                      *)
UuidStep(usn, from, i) ==
    LET colon == Find(usn, i, <<":">>)
        end   == Find(usn, colon + 1, <<":", ":">>)
    IN  CASE colon = NotFound -> <<>>
          [] colon # NotFound /\ ~IEquals(SubSeq(usn, i + 1, colon), "uuid") ->
                from[colon + 1]
          [] OTHER ->
                IF end = NotFound
                THEN <<SubSeq(usn, colon + 2, Len(usn))>> \o from[colon + 1]
                ELSE <<SubSeq(usn, colon + 2, end)>> \o from[end + 2]

AreUuids(usn, f) == f = [i \in 0 .. Len(usn) |-> UuidStep(usn, f, i)]

LEMMA UuidsByChoice ==
    ASSUME NEW usn
    PROVE  UuidsOf(usn) = (CHOOSE f : AreUuids(usn, f))[0]
<1>. QED  BY Zenon DEF UuidsOf, AreUuids, UuidStep

LEMMA ColonIs ==
    ASSUME NEW S, ":" \in S, NEW usn \in Seq(S), NEW i \in 0 .. Len(usn),
           NEW colon, colon = Find(usn, i, <<":">>)
    PROVE  \/ colon = NotFound /\ \A k \in i + 1 .. Len(usn) : usn[k] # ":"
           \/ NextAt(usn, ":", i, colon)
<1>. QED  BY NextIs

LEMMA EndIs ==
    ASSUME NEW usn, Len(usn) \in Nat, NEW from \in Nat, NEW end, end = Find(usn, from, <<":", ":">>)
    PROVE  end = NotFound \/ end \in from .. Len(usn) - 2
<1>1. Len(<<":", ":">>) = 2
  OBVIOUS
<1>. QED  BY <1>1, FindIsInside

(* The next colon, and the next "::" behind it.                            *)
AreColons(usn, i, colon, end) ==
    colon = Find(usn, i, <<":">>) /\ end = Find(usn, colon + 1, <<":", ":">>)

IsNamed(usn, i, colon) == colon # NotFound /\ IEquals(SubSeq(usn, i + 1, colon), "uuid")

UuidAt(usn, colon, end) ==
    IF end = NotFound THEN SubSeq(usn, colon + 2, Len(usn)) ELSE SubSeq(usn, colon + 2, end)

NextFrom(colon, end) == IF end = NotFound THEN colon + 1 ELSE end + 2

LEMMA UuidNone ==
    ASSUME NEW usn, NEW f, NEW i, NEW colon, NEW end, AreColons(usn, i, colon, end), colon = NotFound
    PROVE  UuidStep(usn, f, i) = <<>>
<1>. QED  BY DEF UuidStep, AreColons

LEMMA UuidOther ==
    ASSUME NEW usn, NEW f, NEW i, NEW colon, NEW end, AreColons(usn, i, colon, end),
           colon # NotFound, ~IsNamed(usn, i, colon)
    PROVE  UuidStep(usn, f, i) = f[colon + 1]
<1>. QED  BY DEF UuidStep, AreColons, IsNamed

LEMMA UuidFound ==
    ASSUME NEW usn, NEW f, NEW i, NEW colon, NEW end, AreColons(usn, i, colon, end),
           IsNamed(usn, i, colon)
    PROVE  AreJoined(UuidStep(usn, f, i), <<UuidAt(usn, colon, end)>>, f[NextFrom(colon, end)])
<1>. QED  BY DEF UuidStep, AreColons, IsNamed, AreJoined, UuidAt, NextFrom

(* Where they are.                                                         *)
LEMMA ColonsAre ==
    ASSUME NEW S, ":" \in S, NEW usn \in Seq(S), NEW i \in 0 .. Len(usn),
           NEW colon, NEW end, AreColons(usn, i, colon, end)
    PROVE  \/ colon = NotFound /\ \A k \in i + 1 .. Len(usn) : usn[k] # ":"
           \/ /\ colon # NotFound /\ NextAt(usn, ":", i, colon) /\ colon + 1 \in i + 1 .. Len(usn)
              /\ end = NotFound \/ end \in colon + 1 .. Len(usn) - 2
              /\ NextFrom(colon, end) \in i + 1 .. Len(usn)
<1>1. PICK n \in Nat : n = Len(usn)
  OBVIOUS
<1>2. colon = Find(usn, i, <<":">>) /\ end = Find(usn, colon + 1, <<":", ":">>)
  BY DEF AreColons
<1>3. CASE colon = NotFound /\ \A k \in i + 1 .. Len(usn) : usn[k] # ":"
  BY <1>3
<1>4. CASE NextAt(usn, ":", i, colon)
  <2>1. colon \in i .. n - 1
    BY <1>1, <1>4 DEF NextAt
  <2>2. colon + 1 \in Nat /\ colon + 1 \in i + 1 .. n /\ colon # NotFound
    BY <1>1, <2>1 DEF NotFound
  <2>3. end = NotFound \/ end \in colon + 1 .. n - 2
    BY <1>1, <1>2, <2>2, EndIs
  <2>4. NextFrom(colon, end) \in i + 1 .. n
    BY <1>1, <2>1, <2>2, <2>3 DEF NextFrom
  <2>. QED  BY <1>1, <1>4, <2>2, <2>3, <2>4
<1>. QED  BY <1>2, <1>3, <1>4, ColonIs

(* A step only looks at what is found later.                               *)
LEMMA LaterUuids ==
    ASSUME NEW S, ":" \in S, NEW usn \in Seq(S), NEW i \in 0 .. Len(usn), NEW f, NEW g,
           \A k \in i + 1 .. Len(usn) : f[k] = g[k]
    PROVE  UuidStep(usn, f, i) = UuidStep(usn, g, i)
<1>1. PICK colon, end : AreColons(usn, i, colon, end)
  BY DEF AreColons
<1>2. CASE colon = NotFound
  <2>1. UuidStep(usn, f, i) = <<>> /\ UuidStep(usn, g, i) = <<>>
    BY <1>1, <1>2, UuidNone
  <2>. QED  BY <2>1
<1>3. CASE colon # NotFound
  <2>1. colon + 1 \in i + 1 .. Len(usn) /\ NextFrom(colon, end) \in i + 1 .. Len(usn)
    BY <1>1, <1>3, ColonsAre
  <2>2. f[colon + 1] = g[colon + 1] /\ f[NextFrom(colon, end)] = g[NextFrom(colon, end)]
    BY <2>1
  <2>3. CASE IsNamed(usn, i, colon)
    <3>1. /\ AreJoined(UuidStep(usn, f, i), <<UuidAt(usn, colon, end)>>, f[NextFrom(colon, end)])
          /\ AreJoined(UuidStep(usn, g, i), <<UuidAt(usn, colon, end)>>, g[NextFrom(colon, end)])
      BY <1>1, <2>3, UuidFound
    <3>. QED  BY <2>2, <3>1, Zenon DEF AreJoined
  <2>4. CASE ~IsNamed(usn, i, colon)
    <3>1. UuidStep(usn, f, i) = f[colon + 1] /\ UuidStep(usn, g, i) = g[colon + 1]
      BY <1>1, <1>3, <2>4, UuidOther
    <3>. QED  BY <2>2, <3>1
  <2>. QED  BY <2>3, <2>4
<1>. QED  BY <1>2, <1>3

(* So there is a function of these steps.                                  *)
LEMMA UuidsExist ==
    ASSUME NEW S, ":" \in S, NEW usn \in Seq(S)
    PROVE  \E f : AreUuids(usn, f)
<1>1. PICK n \in Nat : n = Len(usn)
  OBVIOUS
<1>. DEFINE IsFrom(f, k) == \A i \in 0 .. n : i + k > n => f[i] = UuidStep(usn, f, i)
            K == {k \in Nat : \E f : IsFrom(f, k)}
<1>2. 0 \in K
  <2>1. IsFrom(<<>>, 0)
    OBVIOUS
  <2>. QED  BY <2>1
<1>3. ASSUME NEW k \in Nat, k \in K PROVE k + 1 \in K
  <2>1. PICK f : IsFrom(f, k)
    BY <1>3
  <2>. DEFINE g == [i \in 0 .. n |-> IF i + k > n THEN f[i] ELSE UuidStep(usn, f, i)]
  <2>2. \A i \in 0 .. n : g[i] = IF i + k > n THEN f[i] ELSE UuidStep(usn, f, i)
    OBVIOUS
  <2>. HIDE DEF g
  <2>3. ASSUME NEW i \in 0 .. n, i + (k + 1) > n PROVE g[i] = UuidStep(usn, g, i)
    <3>1. \A j \in i + 1 .. Len(usn) : f[j] = g[j]
      <4>. SUFFICES ASSUME NEW j \in i + 1 .. n PROVE f[j] = g[j]
        BY <1>1
      <4>1. j \in 0 .. n /\ j + k > n
        BY <2>3
      <4>. QED  BY <2>2, <4>1
    <3>2. UuidStep(usn, f, i) = UuidStep(usn, g, i)
      <4>1. i \in 0 .. Len(usn)
        BY <1>1
      <4>. QED  BY <3>1, <4>1, LaterUuids
    <3>3. g[i] = UuidStep(usn, f, i)
      BY <2>1, <2>2
    <3>. QED  BY <3>2, <3>3
  <2>4. IsFrom(g, k + 1)
    BY <2>3
  <2>. QED  BY <2>4
<1>4. n + 1 \in K
  <2>. HIDE DEF K
  <2>1. \A k \in Nat : k \in K
    BY <1>2, <1>3, Induction
  <2>. QED  BY <2>1
<1>5. PICK f : IsFrom(f, n + 1)
  BY <1>4
<1>6. \A i \in 0 .. n : f[i] = UuidStep(usn, f, i)
  BY <1>5
<1>. DEFINE h == [i \in 0 .. n |-> f[i]]
<1>7. \A i \in 0 .. n : h[i] = f[i]
  OBVIOUS
<1>8. h = [i \in 0 .. n |-> h[i]]
  OBVIOUS
<1>. HIDE DEF h
<1>9. ASSUME NEW i \in 0 .. n PROVE h[i] = UuidStep(usn, h, i)
  <2>1. \A j \in i + 1 .. Len(usn) : f[j] = h[j]
    BY <1>1, <1>7
  <2>2. i \in 0 .. Len(usn)
    BY <1>1
  <2>3. UuidStep(usn, f, i) = UuidStep(usn, h, i)
    BY <2>1, <2>2, LaterUuids
  <2>. QED  BY <1>6, <1>7, <2>3
<1>10. h = [i \in 0 .. n |-> UuidStep(usn, h, i)]
  BY <1>8, <1>9
<1>. QED  BY <1>1, <1>10 DEF AreUuids

LEMMA UuidsAreFound ==
    ASSUME NEW S, ":" \in S, NEW usn \in Seq(S)
    PROVE  \E f : /\ UuidsOf(usn) = f[0]
                  /\ \A i \in 0 .. Len(usn) : f[i] = UuidStep(usn, f, i)
<1>1. PICK f : f = CHOOSE g : AreUuids(usn, g)
  OBVIOUS
<1>2. AreUuids(usn, f)
  BY <1>1, UuidsExist, Zenon
<1>3. UuidsOf(usn) = f[0]
  BY <1>1, UuidsByChoice
<1>4. \A i \in 0 .. Len(usn) : f[i] = UuidStep(usn, f, i)
  BY <1>2 DEF AreUuids
<1>. QED  BY <1>3, <1>4

IsBoundary(usn, d, i) == i = 0 \/ usn[i] = d

NamedIn(usn, W, d, j) ==
    /\ j \in 1 .. Len(usn) - 1
    /\ usn[j] \in W /\ usn[j + 1] = d /\ (j = 1 \/ usn[j - 1] = d)

LEMMA NamedBehind ==
    ASSUME NEW S, NEW usn \in Seq(S), NEW W, NEW d, NEW i \in 0 .. Len(usn), NEW c, NextAt(usn, d, i, c),
           IsBoundary(usn, d, i), NEW v, IsPiece(v, usn, i + 1, c), Len(v) = 1, v[1] \in W
    PROVE  NamedIn(usn, W, d, i + 1)
<1>1. PICK n \in Nat : n = Len(usn)
  OBVIOUS
<1>2. c \in i .. n - 1 /\ usn[c + 1] = d
  BY <1>1 DEF NextAt
<1>3. PICK a \in Int, b \in Int : a = i + 1 /\ b = c
  BY <1>1, <1>2
<1>4. /\ Len(v) = (IF a <= b THEN b - a + 1 ELSE 0)
      /\ \A k \in 1 .. b - a + 1 : v[k] = usn[a + k - 1]
  <2>1. \A k \in a .. b : usn[k] \in S
    BY <1>1, <1>2, <1>3
  <2>2. v = SubSeq(usn, a, b)
    BY <1>3 DEF IsPiece
  <2>. QED  BY <1>3, <2>1, <2>2, SubSeqProperties
<1>5. c = i + 1
  <2>1. PICK l \in Nat : l = Len(v) /\ l = 1
    OBVIOUS
  <2>2. l = IF a <= b THEN b - a + 1 ELSE 0
    BY <1>4, <2>1
  <2>3. a = b
    BY <2>1, <2>2
  <2>. QED  BY <1>3, <2>3
<1>6. v[1] = usn[i + 1]
  <2>1. 1 \in 1 .. b - a + 1 /\ a + 1 - 1 = i + 1
    BY <1>1, <1>3, <1>5
  <2>. QED  BY <1>4, <2>1
<1>7. i + 1 \in 1 .. n - 1 /\ (i + 1) - 1 = i /\ (i = 0 => i + 1 = 1)
  BY <1>1, <1>2, <1>5
<1>8. usn[(i + 1) + 1] = d
  BY <1>2, <1>5
<1>9. i + 1 = 1 \/ usn[(i + 1) - 1] = d
  BY <1>7 DEF IsBoundary
<1>. QED  BY <1>1, <1>6, <1>7, <1>8, <1>9 DEF NamedIn

LEMMA NamedSegments ==
    ASSUME NEW S, NEW usn \in Seq(S), NEW i \in 0 .. Len(usn), NEW colon, NextAt(usn, ":", i, colon),
           IsBoundary(usn, ":", i), IsNamed(usn, i, colon)
    PROVE  IsNamedAt(usn, i + 1)
<1>1. PICK v : IsPiece(v, usn, i + 1, colon) /\ v = SubSeq(usn, i + 1, colon)
  BY DEF IsPiece
<1>2. Len(v) = 1 /\ v[1] \in Spellings["uuid"]
  BY <1>1, Zenon DEF IsNamed, IEquals
<1>3. NamedIn(usn, Spellings["uuid"], ":", i + 1)
  BY <1>1, <1>2, NamedBehind
<1>. QED  BY <1>3 DEF NamedIn, IsNamedAt

AreFound(usn, f) == \A i \in 0 .. Len(usn) : f[i] = UuidStep(usn, f, i)

(* Where no UUID is named any more, none is found.                         *)
LEMMA NoUuids ==
    ASSUME NEW S, ":" \in S, NEW usn \in Seq(S), NEW f, AreFound(usn, f),
           NEW m \in 0 .. Len(usn), IsBoundary(usn, ":", m),
           \A j \in m + 1 .. Len(usn) : ~IsNamedAt(usn, j)
    PROVE  f[m] = <<>>
<1>1. PICK n \in Nat : n = Len(usn)
  OBVIOUS
<1>2. PICK d : d = ":"
  OBVIOUS
<1>. DEFINE K == {k \in Nat : \A i \in m .. n : n < i + k /\ IsBoundary(usn, d, i) => f[i] = <<>>}
<1>3. 0 \in K
  BY <1>1
<1>4. ASSUME NEW k \in Nat, k \in K PROVE k + 1 \in K
  <2>. SUFFICES ASSUME NEW i \in m .. n, n < i + (k + 1), IsBoundary(usn, d, i) PROVE f[i] = <<>>
    OBVIOUS
  <2>1. i \in 0 .. n /\ i \in 0 .. Len(usn)
    BY <1>1
  <2>2. PICK colon, end : AreColons(usn, i, colon, end)
    BY DEF AreColons
  <2>3. f[i] = UuidStep(usn, f, i)
    BY <2>1 DEF AreFound
  <2>4. CASE colon = NotFound
    <3>1. UuidStep(usn, f, i) = <<>>
      BY <2>2, <2>4, UuidNone
    <3>. QED  BY <2>3, <3>1
  <2>5. CASE colon # NotFound
    <3>1. NextAt(usn, ":", i, colon) /\ colon + 1 \in i + 1 .. Len(usn)
      BY <2>1, <2>2, <2>5, ColonsAre
    <3>2. ~IsNamed(usn, i, colon)
      <4>. SUFFICES ASSUME IsNamed(usn, i, colon) PROVE FALSE
        OBVIOUS
      <4>1. IsNamedAt(usn, i + 1)
        BY <1>2, <2>1, <3>1, NamedSegments
      <4>2. i + 1 \in 1 .. n - 1
        BY <1>1, <4>1 DEF IsNamedAt
      <4>3. i + 1 \in m + 1 .. Len(usn)
        BY <1>1, <4>2
      <4>. QED  BY <4>1, <4>3
    <3>3. UuidStep(usn, f, i) = f[colon + 1]
      BY <2>2, <2>5, <3>2, UuidOther
    <3>4. IsBoundary(usn, d, colon + 1)
      BY <1>2, <3>1 DEF NextAt, IsBoundary
    <3>5. PICK l : l = colon + 1 /\ l \in i + 1 .. n
      BY <1>1, <3>1
    <3>6. l \in m .. n /\ n < l + k
      BY <1>1, <2>1, <3>5
    <3>. QED  BY <1>4, <2>3, <3>3, <3>4, <3>5, <3>6
  <2>. QED  BY <2>4, <2>5
<1>5. n + 1 \in K
  <2>. HIDE DEF K
  <2>1. \A k \in Nat : k \in K
    BY <1>3, <1>4, Induction
  <2>. QED  BY <2>1
<1>6. m \in m .. n /\ n < m + (n + 1)
  BY <1>1
<1>. QED  BY <1>2, <1>5, <1>6

(* The next colon before a name is at its end, or before it begins.        *)
LEMMA ColonBefore ==
    ASSUME NEW S, NEW usn \in Seq(S), NEW W, NEW d, d \notin W, NEW j, NamedIn(usn, W, d, j),
           NEW i \in 0 .. Len(usn), i <= j - 1, NEW c, NextAt(usn, d, i, c)
    PROVE  (c = j /\ i = j - 1) \/ c + 1 <= j - 1
<1>1. PICK n \in Nat : n = Len(usn)
  OBVIOUS
<1>2. /\ j \in 1 .. n - 1 /\ usn[j] # d /\ usn[j + 1] = d /\ (j = 1 \/ usn[j - 1] = d)
      /\ c \in i .. n - 1 /\ usn[c + 1] = d /\ \A k \in i + 1 .. c : usn[k] # d
  BY <1>1 DEF NamedIn, NextAt
<1>3. i \in Nat /\ j \in Nat /\ c \in Nat
  BY <1>1, <1>2
<1>4. c <= j
  <2>. SUFFICES ASSUME ~(c <= j) PROVE FALSE
    OBVIOUS
  <2>1. j + 1 \in i + 1 .. c
    BY <1>3
  <2>. QED  BY <1>2, <2>1
<1>5. c # j - 1
  <2>. SUFFICES ASSUME c = j - 1 PROVE FALSE
    OBVIOUS
  <2>1. c + 1 = j
    BY <1>3
  <2>. QED  BY <1>2, <2>1
<1>6. c = j => i = j - 1
  <2>. SUFFICES ASSUME c = j, i # j - 1 PROVE FALSE
    OBVIOUS
  <2>1. j - 1 \in i + 1 .. c /\ j # 1
    BY <1>3
  <2>. QED  BY <1>2, <2>1
<1>. QED  BY <1>3, <1>4, <1>5, <1>6

(* A name is one.                                                          *)
LEMMA NameIsNamed ==
    ASSUME NEW S, NEW usn \in Seq(S), NEW j, IsNamedAt(usn, j), NEW i, i = j - 1
    PROVE  IsNamed(usn, i, j)
<1>0. PICK n \in Nat : n = Len(usn)
  OBVIOUS
<1>1. PICK W : n = Len(usn) /\ W = Spellings["uuid"]
  BY <1>0
<1>2. j \in 1 .. n - 1 /\ usn[j] \in W
  BY <1>1 DEF IsNamedAt
<1>3. PICK a \in Int, b \in Int : a = i + 1 /\ b = j /\ a = b
  BY <1>1, <1>2
<1>4. PICK v : v = SubSeq(usn, a, b)
  OBVIOUS
<1>5. Len(v) = 1 /\ v[1] = usn[j]
  <2>1. \A k \in a .. b : usn[k] \in S
    BY <1>1, <1>2, <1>3
  <2>2. /\ Len(v) = (IF a <= b THEN b - a + 1 ELSE 0)
        /\ \A k \in 1 .. b - a + 1 : v[k] = usn[a + k - 1]
    BY <1>3, <1>4, <2>1, SubSeqProperties
  <2>3. a <= b /\ b - a + 1 = 1 /\ 1 \in 1 .. b - a + 1 /\ a + 1 - 1 = j
    BY <1>3
  <2>. QED  BY <2>2, <2>3
<1>6. j # NotFound
  BY <1>1, <1>2 DEF NotFound
<1>7. v = SubSeq(usn, i + 1, j)
  BY <1>3, <1>4
<1>8. v[1] \in Spellings["uuid"]
  BY <1>1, <1>2, <1>5
<1>. QED  BY <1>5, <1>6, <1>7, <1>8, Zenon DEF IsNamed, IEquals

(* The first of the offsets at which a token is.                           *)
IsLeast(text, from, token, k) ==
    /\ Len(text) \in Nat /\ from \in Nat /\ Len(token) \in Nat
    /\ k \in from .. Len(text) - Len(token) /\ SubSeq(text, k + 1, k + Len(token)) = token
    /\ \A i \in from .. k - 1 : SubSeq(text, i + 1, i + Len(token)) # token

LEMMA FindLeast ==
    ASSUME NEW text, NEW from, NEW token, NEW k, IsLeast(text, from, token, k)
    PROVE  Find(text, from, token) = k
<1>0. /\ Len(text) \in Nat /\ from \in Nat /\ Len(token) \in Nat
      /\ k \in from .. Len(text) - Len(token) /\ SubSeq(text, k + 1, k + Len(token)) = token
      /\ \A i \in from .. k - 1 : SubSeq(text, i + 1, i + Len(token)) # token
  BY DEF IsLeast
<1>. DEFINE at == {i \in from .. Len(text) - Len(token) :
                      SubSeq(text, i + 1, i + Len(token)) = token}
<1>1. at \subseteq Nat /\ k \in at
  BY <1>0
<1>2. ASSUME NEW i \in at PROVE k <= i
  <2>1. i \in Nat /\ from <= i /\ SubSeq(text, i + 1, i + Len(token)) = token
    BY <1>0
  <2>2. ~(i \in from .. k - 1)
    BY <1>0, <2>1
  <2>. QED  BY <1>0, <1>1, <2>1, <2>2
<1>3. Find(text, from, token) = Min(at)
  BY <1>1 DEF Find
<1>. HIDE DEF at
<1>4. at # {}
  BY <1>1
<1>5. Min(at) \in at /\ \A i \in at : Min(at) <= i
  BY <1>1, <1>4, MinIsIn
<1>6. PICK h \in Nat : h = Min(at)
  BY <1>1, <1>5
<1>7. k \in Nat
  BY <1>1
<1>8. h <= k /\ k <= h
  BY <1>1, <1>2, <1>5, <1>6
<1>. QED  BY <1>3, <1>6, <1>7, <1>8

LEMMA FindHits ==
    ASSUME NEW text, Len(text) \in Nat, NEW from \in Nat, NEW token, Len(token) \in Nat,
           Find(text, from, token) # NotFound
    PROVE  SubSeq(text, Find(text, from, token) + 1, Find(text, from, token) + Len(token)) = token
<1>. DEFINE at == {i \in from .. Len(text) - Len(token) :
                      SubSeq(text, i + 1, i + Len(token)) = token}
<1>1. CASE at = {}
  BY <1>1 DEF Find
<1>2. CASE at # {}
  <2>1. at \subseteq Nat
    OBVIOUS
  <2>2. \A i \in at : SubSeq(text, i + 1, i + Len(token)) = token
    OBVIOUS
  <2>3. Find(text, from, token) = Min(at)
    BY <1>2 DEF Find
  <2>. HIDE DEF at
  <2>4. Min(at) \in at
    BY <1>2, <2>1, MinIsIn
  <2>. QED  BY <2>2, <2>3, <2>4
<1>. QED  BY <1>1, <1>2

(* Two of a symbol behind offset k.                                        *)
LEMMA Doubled ==
    ASSUME NEW S, NEW t \in Seq(S), NEW d \in S, NEW k \in Nat, k + 2 <= Len(t)
    PROVE  SubSeq(t, k + 1, k + 2) = <<d, d>> <=> t[k + 1] = d /\ t[k + 2] = d
<1>1. PICK n \in Nat : n = Len(t) /\ k + 2 <= n
  OBVIOUS
<1>2. PICK e : e = <<d, d>> /\ e \in Seq(S) /\ Len(e) = 2 /\ e[1] = d /\ e[2] = d
  <2>1. <<d, d>> \in Seq(S) /\ Len(<<d, d>>) = 2 /\ <<d, d>>[1] = d /\ <<d, d>>[2] = d
    OBVIOUS
  <2>. QED  BY <2>1
<1>3. PICK a \in Int, b \in Int : a = k + 1 /\ b = k + 2
  OBVIOUS
<1>4. PICK s : s = SubSeq(t, a, b)
  OBVIOUS
<1>5. s \in Seq(S) /\ Len(s) = 2 /\ s[1] = t[k + 1] /\ s[2] = t[k + 2]
  <2>1. \A i \in a .. b : t[i] \in S
    BY <1>1, <1>3
  <2>2. /\ s \in Seq(S) /\ Len(s) = (IF a <= b THEN b - a + 1 ELSE 0)
        /\ \A i \in 1 .. b - a + 1 : s[i] = t[a + i - 1]
    BY <1>4, <2>1, SubSeqProperties
  <2>3. /\ a <= b /\ b - a + 1 = 2 /\ 1 \in 1 .. b - a + 1 /\ 2 \in 1 .. b - a + 1
        /\ a + 1 - 1 = k + 1 /\ a + 2 - 1 = k + 2
    BY <1>3
  <2>. QED  BY <2>2, <2>3
<1>6. ASSUME t[k + 1] = d, t[k + 2] = d PROVE s = e
  <2>1. \A i \in 1 .. 2 : s[i] = e[i]
    <3>1. \A i \in 1 .. 2 : i = 1 \/ i = 2
      OBVIOUS
    <3>. QED  BY <1>2, <1>5, <1>6, <3>1
  <2>. QED  BY <1>2, <1>5, <2>1, SeqEqual
<1>7. s = e => t[k + 1] = d /\ t[k + 2] = d
  BY <1>2, <1>5
<1>8. s = e <=> t[k + 1] = d /\ t[k + 2] = d
  BY <1>6, <1>7
<1>. QED  BY <1>2, <1>3, <1>4, <1>8

(* The end of an id that begins behind offset from.                        *)
EndsAt(usn, d, from, end) ==
    /\ from \in Nat /\ from <= Len(usn) /\ end \in from + 1 .. Len(usn) + 1
    /\ \/ end <= Len(usn) - 1 /\ usn[end] = d /\ usn[end + 1] = d
       \/ end = Len(usn) + 1
    /\ \A i \in from + 1 .. end - 1 : ~(i <= Len(usn) - 1 /\ usn[i] = d /\ usn[i + 1] = d)

LEMMA EndIsFound ==
    ASSUME NEW S, NEW usn \in Seq(S), NEW d \in S, NEW from, NEW end, EndsAt(usn, d, from, end),
           NEW f, f = Find(usn, from, <<d, d>>)
    PROVE  f = IF end = Len(usn) + 1 THEN NotFound ELSE end - 1
<1>1. PICK n \in Nat : n = Len(usn)
  OBVIOUS
<1>2. /\ from \in Nat /\ from <= n /\ end \in from + 1 .. n + 1
      /\ (end <= n - 1 /\ usn[end] = d /\ usn[end + 1] = d) \/ end = n + 1
      /\ \A i \in from + 1 .. end - 1 : ~(i <= n - 1 /\ usn[i] = d /\ usn[i + 1] = d)
  BY <1>1 DEF EndsAt
<1>3. PICK e : e = <<d, d>> /\ Len(e) = 2
  OBVIOUS
<1>4. PICK h \in Nat : end = h + 1 /\ from <= h /\ h <= n
  <2>1. end - 1 \in Nat /\ end = (end - 1) + 1 /\ from <= end - 1 /\ end - 1 <= n
    BY <1>2
  <2>. QED  BY <2>1
<1>5. ASSUME NEW i \in from .. h - 1, i + 2 <= n PROVE SubSeq(usn, i + 1, i + 2) # e
  <2>1. i + 1 \in from + 1 .. end - 1 /\ i + 1 <= n - 1 /\ i \in Nat /\ (i + 1) + 1 = i + 2
    BY <1>2, <1>4, <1>5
  <2>2. ~(usn[i + 1] = d /\ usn[i + 2] = d)
    BY <1>2, <2>1
  <2>3. i + 2 <= Len(usn)
    BY <1>1, <1>5
  <2>4. SubSeq(usn, i + 1, i + 2) # <<d, d>>
    BY <2>1, <2>2, <2>3, Doubled
  <2>. QED  BY <1>3, <2>4
<1>6. CASE end = n + 1
  <2>1. h = n
    BY <1>4, <1>6
  <2>2. f = NotFound
    <3>. SUFFICES ASSUME f # NotFound PROVE FALSE
      OBVIOUS
    <3>1. f \in from .. n - 2 /\ SubSeq(usn, f + 1, f + 2) = e
      <4>1. Find(usn, from, e) = NotFound \/ Find(usn, from, e) \in from .. Len(usn) - Len(e)
        BY <1>1, <1>2, <1>3, FindIsInside
      <4>2. f \in from .. n - 2
        BY <1>1, <1>3, <4>1
      <4>3. SubSeq(usn, f + 1, f + Len(e)) = e
        <5>1. f = Find(usn, from, e)
          BY <1>3
        <5>2. Len(usn) \in Nat /\ Len(e) \in Nat /\ from \in Nat /\ Find(usn, from, e) # NotFound
          BY <1>1, <1>2, <1>3, <5>1
        <5>3. SubSeq(usn, Find(usn, from, e) + 1, Find(usn, from, e) + Len(e)) = e
          BY <5>2, FindHits
        <5>. QED  BY <5>1, <5>3
      <4>. QED  BY <1>3, <4>2, <4>3
    <3>2. f \in from .. h - 1 /\ f + 2 <= n
      BY <1>2, <2>1, <3>1
    <3>. QED  BY <1>5, <3>1, <3>2
  <2>. QED  BY <1>1, <1>6, <2>2
<1>7. CASE end # n + 1
  <2>1. end <= n - 1 /\ usn[end] = d /\ usn[end + 1] = d
    BY <1>2, <1>7
  <2>2. usn[h + 1] = d /\ usn[h + 2] = d /\ h + 2 <= n
    <3>1. end + 1 = h + 2 /\ h + 2 <= n
      BY <1>4, <2>1
    <3>. QED  BY <1>4, <2>1, <3>1
  <2>3. SubSeq(usn, h + 1, h + 2) = e
    <3>1. h + 2 <= Len(usn)
      BY <1>1, <2>2
    <3>. QED  BY <1>3, <2>2, <3>1, Doubled
  <2>4. \A i \in from .. h - 1 : SubSeq(usn, i + 1, i + 2) # e
    <3>1. \A i \in from .. h - 1 : i + 2 <= n
      BY <1>2, <2>2
    <3>. QED  BY <1>5, <3>1
  <2>5. Find(usn, from, e) = h
    <3>1. h \in from .. Len(usn) - Len(e) /\ Len(usn) \in Nat /\ Len(e) \in Nat
      BY <1>1, <1>2, <1>3, <1>4, <2>2
    <3>2. SubSeq(usn, h + 1, h + Len(e)) = e /\ \A i \in from .. h - 1 : SubSeq(usn, i + 1, i + Len(e)) # e
      BY <1>3, <2>3, <2>4
    <3>3. from \in Nat
      BY <1>2
    <3>4. IsLeast(usn, from, e, h)
      BY <3>1, <3>2, <3>3 DEF IsLeast
    <3>. QED  BY <3>4, FindLeast
  <2>. QED  BY <1>1, <1>3, <1>4, <1>7, <2>5
<1>. QED  BY <1>6, <1>7

(* The one UUID that is named in a USN.                                    *)
IsUuidFrom(usn, id, j, end) ==
    /\ j \in 1 .. Len(usn) /\ \A i \in 1 .. Len(usn) : IsNamedAt(usn, i) <=> i = j
    /\ EndsAt(usn, ":", j + 1, end) /\ IsPiece(id, usn, j + 2, end - 1)

LEMMA UuidsAreThere ==
    ASSUME NEW S, NEW usn \in Seq(S), NEW id, IsUuidOf(id, usn)
    PROVE  \E j, end : IsUuidFrom(usn, id, j, end)
<1>1. PICK n \in Nat : n = Len(usn)
  OBVIOUS
<1>2. PICK d : d = ":"
  OBVIOUS
<1>3. PICK j \in 1 .. n, end \in 2 .. n + 1 :
         /\ \A i \in 1 .. n : IsNamedAt(usn, i) <=> i = j
         /\ j + 2 <= end /\ id = SubSeq(usn, j + 2, end - 1)
         /\ IsColons(usn, end) \/ end = n + 1
         /\ \A i \in j + 2 .. end - 1 : ~IsColons(usn, i)
  BY <1>1 DEF IsUuidOf
<1>4. \A i : IsColons(usn, i) <=> i \in 1 .. n - 1 /\ usn[i] = d /\ usn[i + 1] = d
  BY <1>1, <1>2, Zenon DEF IsColons
<1>5. PICK from \in Nat : from = j + 1 /\ from + 1 = j + 2 /\ from <= n /\ end \in from + 1 .. n + 1
  <2>1. j + 1 \in Nat /\ (j + 1) + 1 = j + 2 /\ end \in (j + 1) + 1 .. n + 1
    BY <1>3
  <2>2. j + 1 <= n
    <3>1. end = n + 1 => j + 2 <= n + 1
      BY <1>3
    <3>2. j \in 1 .. n - 1
      <4>1. IsNamedAt(usn, j)
        BY <1>3
      <4>. QED  BY <1>1, <4>1 DEF IsNamedAt
    <3>. QED  BY <1>1, <3>2
  <2>. QED  BY <2>1, <2>2
<1>6. (end <= n - 1 /\ usn[end] = d /\ usn[end + 1] = d) \/ end = n + 1
  <2>1. CASE IsColons(usn, end)
    <3>1. end \in 1 .. n - 1 /\ usn[end] = d /\ usn[end + 1] = d
      BY <1>4, <2>1
    <3>2. end <= n - 1
      BY <1>1, <3>1
    <3>. QED  BY <3>1, <3>2
  <2>. QED  BY <1>3, <2>1
<1>7. ASSUME NEW i \in from + 1 .. end - 1
      PROVE  ~(i <= n - 1 /\ usn[i] = d /\ usn[i + 1] = d)
  <2>1. i \in j + 2 .. end - 1
    BY <1>5
  <2>2. ~IsColons(usn, i)
    BY <1>3, <2>1
  <2>3. i <= n - 1 => i \in 1 .. n - 1
    BY <1>1, <1>3, <2>1
  <2>. QED  BY <1>4, <2>2, <2>3
<1>8. EndsAt(usn, d, from, end)
  BY <1>1, <1>5, <1>6, <1>7 DEF EndsAt
<1>9. EndsAt(usn, ":", j + 1, end)
  BY <1>2, <1>5, <1>8
<1>10. IsPiece(id, usn, j + 2, end - 1)
  BY <1>3 DEF IsPiece
<1>. QED  BY <1>1, <1>3, <1>9, <1>10 DEF IsUuidFrom

(* What is found at the name.                                              *)
LEMMA IdIsFound ==
    ASSUME NEW S, ":" \in S, NEW usn \in Seq(S), NEW id, NEW j, NEW end, IsUuidFrom(usn, id, j, end),
           NEW i, NEW e, AreColons(usn, i, j, e)
    PROVE  /\ UuidAt(usn, j, e) = id
           /\ NextFrom(j, e) \in j + 1 .. Len(usn) /\ IsBoundary(usn, ":", NextFrom(j, e))
<1>0. PICK n \in Nat : n = Len(usn)
  OBVIOUS
<1>1. PICK d : n = Len(usn) /\ d = ":"
  BY <1>0
<1>2. PICK from \in Nat : /\ from = j + 1 /\ from <= n /\ end \in from + 1 .. n + 1
                          /\ (end <= n - 1 /\ usn[end] = d /\ usn[end + 1] = d) \/ end = n + 1
  BY <1>1 DEF IsUuidFrom, EndsAt
<1>3. j \in 1 .. n /\ IsNamedAt(usn, j)
  BY <1>1 DEF IsUuidFrom
<1>4. usn[j + 1] = d
  BY <1>1, <1>3, Zenon DEF IsNamedAt
<1>5. e = IF end = n + 1 THEN NotFound ELSE end - 1
  <2>1. EndsAt(usn, ":", j + 1, end)
    BY DEF IsUuidFrom
  <2>2. e = Find(usn, j + 1, <<":", ":">>)
    BY DEF AreColons
  <2>3. e = IF end = Len(usn) + 1 THEN NotFound ELSE end - 1
    BY <2>1, <2>2, EndIsFound
  <2>. QED  BY <1>1, <2>3
<1>6. IsPiece(id, usn, j + 2, end - 1)
  BY DEF IsUuidFrom
<1>7. CASE end = n + 1
  <2>1. e = NotFound
    BY <1>5, <1>7
  <2>2. end - 1 = n
    BY <1>1, <1>7
  <2>3. UuidAt(usn, j, e) = SubSeq(usn, j + 2, n)
    BY <1>1, <2>1, Zenon DEF UuidAt
  <2>4. NextFrom(j, e) = j + 1
    BY <2>1, Zenon DEF NextFrom
  <2>5. j + 1 \in j + 1 .. n
    BY <1>1, <1>2, <1>3
  <2>6. UuidAt(usn, j, e) = id
    BY <1>6, <2>2, <2>3, Zenon DEF IsPiece
  <2>. QED  BY <1>1, <1>4, <2>4, <2>5, <2>6 DEF IsBoundary
<1>8. CASE end # n + 1
  <2>1. e = end - 1
    BY <1>5, <1>8
  <2>2. e # NotFound /\ e + 2 = end + 1 /\ e + 2 \in j + 1 .. n
    BY <1>1, <1>2, <1>3, <1>8, <2>1 DEF NotFound
  <2>3. UuidAt(usn, j, e) = SubSeq(usn, j + 2, e)
    BY <1>1, <2>2, Zenon DEF UuidAt
  <2>4. NextFrom(j, e) = e + 2
    BY <2>2, Zenon DEF NextFrom
  <2>5. UuidAt(usn, j, e) = id
    BY <1>6, <2>1, <2>3, Zenon DEF IsPiece
  <2>6. usn[e + 2] = d
    BY <1>2, <1>8, <2>2
  <2>. QED  BY <1>1, <2>2, <2>4, <2>5, <2>6 DEF IsBoundary
<1>. QED  BY <1>7, <1>8

LEMMA NothingBehind ==
    ASSUME NEW T, NEW c \in T, NEW z, AreJoined(z, <<c>>, <<>>)
    PROVE  z = <<c>>
<1>1. PICK o \in Seq(T) : o = <<c>>
  <2>1. <<c>> \in Seq(T)
    BY OneElement
  <2>. QED  BY <2>1
<1>2. o \o <<>> = o
  BY ConcatEmptySeq
<1>. QED  BY <1>1, <1>2 DEF AreJoined

(* Up to the name, that UUID is found and no other.                        *)
LEMMA OneUuid ==
    ASSUME NEW S, ":" \in S, ":" \notin Spellings["uuid"], NEW usn \in Seq(S), NEW f, AreFound(usn, f),
           NEW id, NEW j, NEW end, IsUuidFrom(usn, id, j, end)
    PROVE  f[0] = <<id>>
<1>1. PICK n \in Nat : n = Len(usn)
  OBVIOUS
<1>2. PICK d : d = ":"
  OBVIOUS
<1>3. j \in 1 .. n /\ IsNamedAt(usn, j) /\ \A i \in 1 .. n : IsNamedAt(usn, i) => i = j
  BY <1>1 DEF IsUuidFrom
<1>4. NamedIn(usn, Spellings["uuid"], ":", j)
  BY <1>3 DEF NamedIn, IsNamedAt
<1>5. j \in Nat /\ j <= n - 1 /\ j >= 1
  <2>1. j \in 1 .. n - 1
    BY <1>1, <1>4 DEF NamedIn
  <2>. QED  BY <1>1, <2>1
<1>. DEFINE K == {k \in Nat : \A i \in 0 .. j - 1 : n < i + k /\ IsBoundary(usn, d, i) => f[i] = <<id>>}
<1>6. 0 \in K
  <2>1. \A i \in 0 .. j - 1 : ~(n < i + 0)
    BY <1>1, <1>5
  <2>. QED  BY <2>1
<1>7. ASSUME NEW k \in Nat, k \in K PROVE k + 1 \in K
  <2>. SUFFICES ASSUME NEW i \in 0 .. j - 1, n < i + (k + 1), IsBoundary(usn, d, i) PROVE f[i] = <<id>>
    OBVIOUS
  <2>0. \A l \in 0 .. j - 1 : n < l + k /\ IsBoundary(usn, d, l) => f[l] = <<id>>
    BY <1>7
  <2>. HIDE DEF K
  <2>1. i \in 0 .. n /\ i \in 0 .. Len(usn) /\ i \in Nat /\ i <= j - 1
    BY <1>1, <1>5
  <2>2. PICK colon, e : AreColons(usn, i, colon, e)
    BY DEF AreColons
  <2>3. f[i] = UuidStep(usn, f, i)
    BY <2>1 DEF AreFound
  <2>4. colon # NotFound
    <3>. SUFFICES ASSUME colon = NotFound PROVE FALSE
      OBVIOUS
    <3>2. \A l \in i + 1 .. n : usn[l] # d
      BY <1>1, <1>2, <2>1, <2>2, ColonsAre
    <3>3. j + 1 \in i + 1 .. n
      BY <1>1, <1>5, <2>1
    <3>4. usn[j + 1] = d
      BY <1>2, <1>4, Zenon DEF NamedIn
    <3>. QED  BY <3>2, <3>3, <3>4
  <2>5. NextAt(usn, ":", i, colon) /\ colon + 1 \in i + 1 .. n
    BY <1>1, <2>1, <2>2, <2>4, ColonsAre
  <2>6. (colon = j /\ i = j - 1) \/ colon + 1 <= j - 1
    BY <1>4, <2>1, <2>5, ColonBefore
  <2>7. CASE colon = j /\ i = j - 1
    <3>1. IsNamed(usn, i, j)
      BY <1>3, <2>7, NameIsNamed
    <3>2. AreJoined(UuidStep(usn, f, i), <<UuidAt(usn, j, e)>>, f[NextFrom(j, e)])
      BY <2>2, <2>7, <3>1, UuidFound
    <3>3. /\ UuidAt(usn, j, e) = id
          /\ NextFrom(j, e) \in j + 1 .. Len(usn) /\ IsBoundary(usn, ":", NextFrom(j, e))
      BY <2>2, <2>7, IdIsFound
    <3>4. PICK m \in 0 .. Len(usn) : m = NextFrom(j, e) /\ m \in j + 1 .. n
      BY <1>1, <1>5, <3>3
    <3>5. \A l \in m + 1 .. Len(usn) : ~IsNamedAt(usn, l)
      <4>. SUFFICES ASSUME NEW l \in m + 1 .. n PROVE ~IsNamedAt(usn, l)
        BY <1>1
      <4>1. l \in 1 .. n /\ l # j
        BY <1>1, <1>5, <3>4
      <4>. QED  BY <1>3, <4>1
    <3>6. f[m] = <<>>
      BY <3>3, <3>4, <3>5, NoUuids
    <3>7. AreJoined(f[i], <<id>>, <<>>)
      BY <2>3, <3>2, <3>3, <3>4, <3>6
    <3>. QED  BY <3>7, NothingBehind
  <2>8. CASE colon + 1 <= j - 1
    <3>1. PICK l \in 0 .. j - 1 : l = colon + 1 /\ l \in i + 1 .. n
      BY <1>1, <2>1, <2>5, <2>8
    <3>2. ~IsNamed(usn, i, colon)
      <4>. SUFFICES ASSUME IsNamed(usn, i, colon) PROVE FALSE
        OBVIOUS
      <4>1. IsNamedAt(usn, i + 1)
        BY <1>2, <2>1, <2>5, NamedSegments
      <4>2. i + 1 \in 1 .. n
        BY <1>1, <1>5, <2>1
      <4>3. i + 1 = j
        BY <1>3, <4>1, <4>2
      <4>. QED  BY <1>5, <2>1, <3>1, <4>3
    <3>3. UuidStep(usn, f, i) = f[colon + 1]
      BY <2>2, <2>4, <3>2, UuidOther
    <3>4. IsBoundary(usn, d, colon + 1)
      BY <1>2, <2>5, Zenon DEF NextAt, IsBoundary
    <3>5. n < l + k
      BY <1>1, <2>1, <3>1
    <3>. QED  BY <2>0, <2>3, <3>1, <3>3, <3>4, <3>5
  <2>. QED  BY <2>6, <2>7, <2>8
<1>8. n + 1 \in K
  <2>. HIDE DEF K
  <2>1. \A k \in Nat : k \in K
    BY <1>6, <1>7, Induction
  <2>. QED  BY <2>1
<1>9. 0 \in 0 .. j - 1 /\ n < 0 + (n + 1)
  BY <1>1, <1>5
<1>10. IsBoundary(usn, d, 0)
  BY DEF IsBoundary
<1>. QED  BY <1>8, <1>9, <1>10

(* The UUIDs of a USN in which one is named, or none.                      *)
LEMMA UuidsAre ==
    ASSUME NEW usn \in Seq(Chars)
    PROVE  /\ (\A i \in DOMAIN usn : ~IsNamedAt(usn, i)) => UuidsOf(usn) = <<>>
           /\ \A id : IsUuidOf(id, usn) => UuidsOf(usn) = <<id>>
<1>1. ":" \in Chars
  BY CharsHave, Zenon
<1>2. PICK f : UuidsOf(usn) = f[0] /\ AreFound(usn, f)
  <2>1. \E f : /\ UuidsOf(usn) = f[0]
               /\ \A i \in 0 .. Len(usn) : f[i] = UuidStep(usn, f, i)
    BY <1>1, UuidsAreFound
  <2>. QED  BY <2>1 DEF AreFound
<1>3. ASSUME \A i \in DOMAIN usn : ~IsNamedAt(usn, i) PROVE UuidsOf(usn) = <<>>
  <2>1. 0 \in 0 .. Len(usn) /\ \A j \in 0 + 1 .. Len(usn) : ~IsNamedAt(usn, j)
    BY <1>3
  <2>2. IsBoundary(usn, ":", 0)
    BY DEF IsBoundary
  <2>3. f[0] = <<>>
    BY <1>1, <1>2, <2>1, <2>2, NoUuids
  <2>. QED  BY <1>2, <2>3
<1>4. ASSUME NEW id, IsUuidOf(id, usn) PROVE UuidsOf(usn) = <<id>>
  <2>1. PICK j, end : IsUuidFrom(usn, id, j, end)
    BY <1>4, UuidsAreThere
  <2>2. ":" \notin Spellings["uuid"]
    <3>1. "uuid" \in DOMAIN Spellings
      BY IgdUrlsAssumption
    <3>2. Spellings["uuid"] \cap {":", " ", "\n"} = {}
      BY <3>1, TextAssumption, Zenon
    <3>. QED  BY <3>2, Zenon
  <2>3. f[0] = <<id>>
    BY <1>1, <1>2, <2>1, <2>2, OneUuid
  <2>. QED  BY <1>2, <2>3
<1>. QED  BY <1>3, <1>4

-----------------------------------------------------------------------------
(* What an answer says, and what a part of it says.                        *)

(* What was sent under a key: c, if there is such a header.                *)
IsSent(p, key, s, c) ==
    /\ c \in Seq(Chars)
    /\ \A i \in 1 .. Len(p.headers) : IEquals(p.headers[i].key, key) => p.headers[i].val = c
    /\ s = IF \E i \in 1 .. Len(p.headers) : IEquals(p.headers[i].key, key) THEN <<c>> ELSE <<>>

(* The values of a key in a part of the headers, or in all.                *)
LEMMA ValuesAre ==
    ASSUME NEW p, IsInParts(p), NEW hs, NEW m, AreHeaders(hs, p, m),
           NEW key, NEW s, NEW c, IsSent(p, key, s, c)
    PROVE  /\ AreAll(ValuesOf(hs, key), Seq(Chars), c)
           /\ ValuesOf(hs, key) # <<>> => s = <<c>>
           /\ m = Len(p.headers) /\ s # <<>> => ValuesOf(hs, key) # <<>>
<1>0. PICK n \in Nat : n = Len(p.headers)
  BY DEF IsInParts
<1>1. PICK T : n = Len(p.headers) /\ T = Seq(Chars)
  BY <1>0
<1>2. /\ c \in T
      /\ \A i \in 1 .. n : IEquals(p.headers[i].key, key) => p.headers[i].val = c
      /\ s = IF \E i \in 1 .. n : IEquals(p.headers[i].key, key) THEN <<c>> ELSE <<>>
  BY <1>1 DEF IsSent
<1>3. /\ m \in 0 .. n /\ DOMAIN hs = 1 .. m
      /\ \A k \in 1 .. m : hs[k].key = p.headers[k].key /\ hs[k].val = p.headers[k].val
  BY <1>1 DEF AreHeaders
<1>4. PICK o : o = <<c>> /\ o \in Seq(T) /\ o # <<>>
  <2>1. <<c>> \in Seq(T) /\ <<c>> # <<>>
    BY <1>2, OneElement
  <2>. QED  BY <2>1
<1>5. PICK ss : ss = [i \in DOMAIN hs |-> IF IEquals(hs[i].key, key) THEN <<hs[i].val>> ELSE <<>>]
  OBVIOUS
<1>6. ValuesOf(hs, key) = FlattenSeq(ss)
  BY <1>5, Zenon DEF ValuesOf
<1>7. ASSUME NEW i \in 1 .. m
      PROVE  /\ i \in 1 .. n
             /\ ss[i] = IF IEquals(p.headers[i].key, key) THEN o ELSE <<>>
  <2>1. i \in 1 .. n
    BY <1>3
  <2>2. ss[i] = IF IEquals(p.headers[i].key, key) THEN <<p.headers[i].val>> ELSE <<>>
    BY <1>3, <1>5
  <2>3. IEquals(p.headers[i].key, key) => <<p.headers[i].val>> = o
    BY <1>2, <1>4, <2>1
  <2>. QED  BY <2>1, <2>2, <2>3
<1>8. ss \in Seq(Seq(T)) /\ Len(ss) = m
  <2>1. <<>> \in Seq(T)
    OBVIOUS
  <2>2. \A i \in 1 .. m : ss[i] \in Seq(T)
    BY <1>4, <1>7, <2>1
  <2>3. ss \in [1 .. m -> Seq(T)]
    BY <1>3, <1>5, <2>2
  <2>. QED  BY <1>3, <2>3
<1>9. AreOptions(ss, T, c)
  BY <1>2, <1>4, <1>7, <1>8 DEF AreOptions
<1>10. /\ AreAll(FlattenSeq(ss), T, c)
       /\ FlattenSeq(ss) # <<>> <=> \E i \in 1 .. m : ss[i] = o
  BY <1>4, <1>8, <1>9, FlatOptions
<1>11. ASSUME NEW i \in 1 .. m, ss[i] = o PROVE s = <<c>>
  <2>1. IEquals(p.headers[i].key, key) /\ i \in 1 .. n
    BY <1>4, <1>7, <1>11
  <2>. QED  BY <1>2, <2>1
<1>12. ASSUME m = n, s # <<>> PROVE \E i \in 1 .. m : ss[i] = o
  <2>1. PICK i \in 1 .. n : IEquals(p.headers[i].key, key)
    BY <1>2, <1>12
  <2>. QED  BY <1>7, <1>12, <2>1
<1>. QED  BY <1>1, <1>6, <1>10, <1>11, <1>12

(* So a field is the one that was sent, or its header has been cut off.    *)
LEMMA FieldIs ==
    ASSUME NEW p, IsInParts(p), NEW hs, NEW m, AreHeaders(hs, p, m),
           NEW key, NEW s, NEW c, IsSent(p, key, s, c)
    PROVE  /\ LastOf(ValuesOf(hs, key)) \in {<<>>, s}
           /\ m = Len(p.headers) => LastOf(ValuesOf(hs, key)) = s
<1>1. PICK x : x = ValuesOf(hs, key)
  OBVIOUS
<1>2. /\ AreAll(x, Seq(Chars), c) /\ (x # <<>> => s = <<c>>)
      /\ m = Len(p.headers) /\ s # <<>> => x # <<>>
  BY <1>1, ValuesAre
<1>3. LastOf(x) = IF x = <<>> THEN <<>> ELSE <<c>>
  BY <1>2, LastOfSame
<1>. QED  BY <1>1, <1>2, <1>3

LEMMA UuidIs ==
    ASSUME NEW x, NEW c \in Seq(Chars), AreAll(x, Seq(Chars), c), NEW T, NEW id \in T,
           NEW u, UuidsOf(c) = u, u \in {<<>>, <<id>>}
    PROVE  LastOf(FlattenSeq([i \in DOMAIN x |-> UuidsOf(x[i])])) = IF x = <<>> THEN <<>> ELSE u
<1>1. PICK k \in Nat : k = Len(x) /\ DOMAIN x = 1 .. k /\ \A j \in 1 .. k : x[j] = c
  BY DEF AreAll
<1>2. PICK ss : ss = [i \in DOMAIN x |-> UuidsOf(x[i])]
  OBVIOUS
<1>3. PICK o : o = <<id>> /\ o \in Seq(T) /\ o # <<>>
  <2>1. <<id>> \in Seq(T) /\ <<id>> # <<>>
    BY OneElement
  <2>. QED  BY <2>1
<1>4. \A i \in 1 .. k : ss[i] = u
  BY <1>1, <1>2
<1>5. ss \in Seq(Seq(T)) /\ Len(ss) = k
  <2>1. u \in Seq(T)
    BY <1>3, EmptySeq
  <2>2. ss \in [1 .. k -> Seq(T)]
    BY <1>1, <1>2, <1>4, <2>1
  <2>. QED  BY <2>2
<1>6. AreOptions(ss, T, id)
  BY <1>3, <1>4, <1>5 DEF AreOptions
<1>7. AreAll(FlattenSeq(ss), T, id) /\ (FlattenSeq(ss) # <<>> <=> \E i \in 1 .. k : ss[i] = o)
  BY <1>3, <1>5, <1>6, FlatOptions
<1>8. LastOf(FlattenSeq(ss)) = IF FlattenSeq(ss) = <<>> THEN <<>> ELSE o
  BY <1>3, <1>7, LastOfSame
<1>9. x = <<>> <=> k = 0
  BY <1>1, EmptySeq DEF AreAll
<1>10. CASE k = 0
  <2>1. ~\E i \in 1 .. k : ss[i] = o
    BY <1>10
  <2>. QED  BY <1>2, <1>7, <1>8, <1>9, <1>10, <2>1
<1>11. CASE k # 0
  <2>1. 1 \in 1 .. k
    BY <1>11
  <2>2. (\E i \in 1 .. k : ss[i] = o) <=> u = o
    BY <1>4, <2>1
  <2>3. u = <<>> \/ u = o
    BY <1>3
  <2>. QED  BY <1>2, <1>3, <1>7, <1>8, <1>9, <1>11, <2>2, <2>3
<1>. QED  BY <1>10, <1>11

LEMMA KeysAre ==
    /\ DOMAIN Keys = {"usn", "location", "service_type"}
    /\ Keys["usn"] = "USN" /\ Keys["location"] = "LOCATION" /\ Keys["service_type"] = "ST"
    /\ Fields = {"usn", "location", "service_type", "uuid"}
  BY DEF Keys, Fields

(* What was sent under the keys that are looked at.                        *)
LEMMA FieldsAreSent ==
    ASSUME NEW p, IsAnswer(p), NEW f \in DOMAIN Keys
    PROVE  \E c : IsSent(p, Keys[f], p.sent[f], c)
<1>1. PICK with : with = {i \in DOMAIN p.headers : IEquals(p.headers[i].key, Keys[f])}
  OBVIOUS
<1>2. (p.sent[f] = <<>> <=> with = {}) /\ \A i \in with : p.sent[f] = <<p.headers[i].val>>
  BY <1>1 DEF IsAnswer
<1>3. /\ DOMAIN p.headers = 1 .. Len(p.headers)
      /\ \A i \in 1 .. Len(p.headers) : p.headers[i].val \in Seq(Chars)
  <2>1. IsInParts(p)
    BY AnswersAreInParts
  <2>. QED  BY <2>1 DEF IsInParts, AreParts
<1>4. CASE with = {}
  <2>1. PICK c : c = <<>> /\ c \in Seq(Chars)
    BY EmptySeq
  <2>2. \A i \in 1 .. Len(p.headers) : ~IEquals(p.headers[i].key, Keys[f])
    BY <1>1, <1>3, <1>4
  <2>3. IsSent(p, Keys[f], p.sent[f], c)
    BY <1>2, <1>4, <2>1, <2>2 DEF IsSent
  <2>. QED  BY <2>3
<1>5. CASE with # {}
  <2>1. PICK i \in 1 .. Len(p.headers) : IEquals(p.headers[i].key, Keys[f])
    BY <1>1, <1>3, <1>5
  <2>2. PICK c \in Seq(Chars) : c = p.headers[i].val
    BY <1>3
  <2>3. p.sent[f] = <<c>>
    BY <1>1, <1>2, <1>3, <2>1, <2>2
  <2>4. ASSUME NEW j \in 1 .. Len(p.headers), IEquals(p.headers[j].key, Keys[f])
        PROVE  p.headers[j].val = c
    <3>1. p.sent[f] = <<p.headers[j].val>>
      BY <1>1, <1>2, <1>3, <2>4
    <3>2. <<p.headers[j].val>>[1] = <<c>>[1]
      BY <2>3, <3>1
    <3>. QED  BY <3>2
  <2>5. IsSent(p, Keys[f], p.sent[f], c)
    BY <2>1, <2>2, <2>3, <2>4 DEF IsSent
  <2>. QED  BY <2>5
<1>. QED  BY <1>4, <1>5

(* The UUID that is in the USN that was sent.                              *)
LEMMA UuidIsSent ==
    ASSUME NEW p, IsAnswer(p), NEW c, IsSent(p, "USN", p.sent.usn, c)
    PROVE  /\ p.sent.usn = <<>> => p.sent.uuid = <<>>
           /\ p.sent.usn = <<c>> =>
                \E id : UuidsOf(c) = p.sent.uuid /\ p.sent.uuid \in {<<>>, <<id>>}
<1>1. \/ /\ p.sent.uuid = <<>>
         /\ p.sent.usn # <<>> => \A i \in DOMAIN p.sent.usn[1] : ~IsNamedAt(p.sent.usn[1], i)
      \/ /\ p.sent.usn # <<>> /\ Len(p.sent.uuid) = 1
         /\ IsUuidOf(p.sent.uuid[1], p.sent.usn[1])
  BY DEF IsAnswer
<1>2. p.sent.uuid \in Seq(Seq(STRING)) /\ c \in Seq(Chars)
  <2>1. p.sent \in [Fields -> Seq(Seq(STRING))] /\ "uuid" \in Fields
    BY DEF IsAnswer, Fields
  <2>. QED  BY <2>1 DEF IsSent
<1>3. ASSUME p.sent.usn = <<c>>
      PROVE  \E id : UuidsOf(c) = p.sent.uuid /\ p.sent.uuid \in {<<>>, <<id>>}
  <2>1. p.sent.usn # <<>> /\ p.sent.usn[1] = c
    <3>1. <<c>> # <<>> /\ <<c>>[1] = c
      OBVIOUS
    <3>. QED  BY <1>3, <3>1
  <2>2. CASE /\ p.sent.uuid = <<>>
             /\ \A i \in DOMAIN c : ~IsNamedAt(c, i)
    <3>1. UuidsOf(c) = <<>>
      BY <1>2, <2>2, UuidsAre
    <3>. QED  BY <2>2, <3>1
  <2>3. CASE Len(p.sent.uuid) = 1 /\ IsUuidOf(p.sent.uuid[1], c)
    <3>1. PICK id : id = p.sent.uuid[1]
      OBVIOUS
    <3>2. UuidsOf(c) = <<id>>
      BY <1>2, <2>3, <3>1, UuidsAre
    <3>3. p.sent.uuid = <<id>>
      BY <1>2, <2>3, <3>1, IsOne
    <3>. QED  BY <3>2, <3>3
  <2>. QED  BY <1>1, <2>1, <2>2, <2>3
<1>. QED  BY <1>1, <1>3

LEMMA UuidFieldIs ==
    ASSUME NEW p, IsAnswer(p), NEW hs, NEW m, AreHeaders(hs, p, m),
           NEW x, x = ValuesOf(hs, "USN"),
           NEW u, u = LastOf(FlattenSeq([i \in DOMAIN x |-> UuidsOf(x[i])]))
    PROVE  u \in {<<>>, p.sent.uuid} /\ (m = Len(p.headers) => u = p.sent.uuid)
<1>1. IsInParts(p)
  BY AnswersAreInParts
<1>2. PICK c : IsSent(p, "USN", p.sent.usn, c)
  <2>1. \E c : IsSent(p, Keys["usn"], p.sent["usn"], c)
    BY KeysAre, FieldsAreSent
  <2>. QED  BY <2>1, KeysAre
<1>3. /\ AreAll(x, Seq(Chars), c) /\ (x # <<>> => p.sent.usn = <<c>>)
      /\ m = Len(p.headers) /\ p.sent.usn # <<>> => x # <<>>
  BY <1>1, <1>2, ValuesAre
<1>4. /\ p.sent.usn = <<>> => p.sent.uuid = <<>>
      /\ p.sent.usn = <<c>> =>
           \E id : UuidsOf(c) = p.sent.uuid /\ p.sent.uuid \in {<<>>, <<id>>}
  BY <1>2, UuidIsSent
<1>5. c \in Seq(Chars) /\ (p.sent.usn = <<>> \/ p.sent.usn = <<c>>)
  BY <1>2 DEF IsSent
<1>6. CASE p.sent.usn = <<>>
  <2>1. PICK e : e = <<>> /\ e \in Seq(Chars) /\ Len(e) = 0 /\ DOMAIN e = {}
    <3>1. Len(<<>>) = 0 /\ DOMAIN <<>> = {} /\ <<>> \in Seq(Chars)
      OBVIOUS
    <3>. QED  BY <3>1
  <2>2. x = <<>>
    <3>1. <<c>> # <<>>
      OBVIOUS
    <3>. QED  BY <1>3, <1>6, <3>1
  <2>3. UuidsOf(e) = <<>>
    <3>1. \A i \in DOMAIN e : ~IsNamedAt(e, i)
      BY <2>1
    <3>. QED  BY <2>1, <3>1, UuidsAre
  <2>4. AreAll(x, Seq(Chars), e)
    <3>1. x \in Seq(Seq(Chars))
      BY <1>3 DEF AreAll
    <3>2. \A j \in 1 .. Len(x) : x[j] = e
      BY <2>1, <2>2
    <3>. QED  BY <3>1, <3>2 DEF AreAll
  <2>5. u = IF x = <<>> THEN <<>> ELSE <<>>
    <3>1. PICK v : v = UuidsOf(e) /\ v \in {<<>>, <<e>>}
      BY <2>3
    <3>2. e \in {e}
      OBVIOUS
    <3>3. LastOf(FlattenSeq([i \in DOMAIN x |-> UuidsOf(x[i])])) = IF x = <<>> THEN <<>> ELSE v
      BY <2>1, <2>4, <3>1, <3>2, UuidIs
    <3>. QED  BY <2>3, <3>1, <3>3
  <2>. QED  BY <1>4, <1>6, <2>5
<1>7. CASE p.sent.usn = <<c>>
  <2>1. PICK id : UuidsOf(c) = p.sent.uuid /\ p.sent.uuid \in {<<>>, <<id>>}
    BY <1>4, <1>7
  <2>2. PICK s : s = p.sent.uuid
    OBVIOUS
  <2>3. id \in {id}
    OBVIOUS
  <2>4. UuidsOf(c) = s /\ s \in {<<>>, <<id>>}
    BY <2>1, <2>2
  <2>5. LastOf(FlattenSeq([i \in DOMAIN x |-> UuidsOf(x[i])])) = IF x = <<>> THEN <<>> ELSE s
    BY <1>3, <1>5, <2>3, <2>4, UuidIs
  <2>6. <<c>> # <<>>
    OBVIOUS
  <2>. QED  BY <1>3, <1>7, <2>2, <2>5, <2>6
<1>. QED  BY <1>5, <1>6, <1>7

(* What a response has is what was sent.                                   *)
AsSent(r, p) == \A f \in Fields : r[f] \in {<<>>, p.sent[f]}

LEMMA AnswersAre ==
    ASSUME NEW p, IsAnswer(p), NEW v, IsCut(Chars, v, Datagram(p))
    PROVE  /\ ParseResponse(v) # <<>> /\ AsSent(ParseResponse(v)[1], p)
           /\ v = Datagram(p) => \A f \in Fields : ParseResponse(v)[1][f] = p.sent[f]
<1>1. IsInParts(p)
  BY AnswersAreInParts
<1>2. PICK lines : lines = LinesOf(v)
  OBVIOUS
<1>3. PICK m : AreFirstLines(p, lines, m) /\ (v = Datagram(p) => m = Len(p.headers))
  <2>1. /\ \E m : AreFirstLines(p, lines, m)
        /\ v = Datagram(p) => AreFirstLines(p, lines, Len(p.headers))
    BY <1>1, <1>2, DatagramLines
  <2>. QED  BY <2>1
<1>4. PICK hs : hs = HeadersOf(lines)
  OBVIOUS
<1>5. AreHeaders(hs, p, m)
  BY <1>1, <1>3, <1>4, HeadersAre
<1>6. lines # <<>> => IsSuccess(lines[1])
  <2>1. lines # <<>> => lines[1] = p.status
    BY <1>3 DEF AreFirstLines
  <2>2. p.status \in Seq(Chars) /\ IsStatus(p.status)
    BY <1>1 DEF IsInParts, IsAnswer
  <2>. QED  BY <2>1, <2>2, StatusIsSuccess
<1>7. PICK usns : usns = ValuesOf(hs, "USN")
  OBVIOUS
<1>8. PICK r : r = [usn          |-> LastOf(usns),
                    uuid         |-> LastOf(FlattenSeq([i \in DOMAIN usns |-> UuidsOf(usns[i])])),
                    location     |-> LastOf(ValuesOf(hs, "LOCATION")),
                    service_type |-> LastOf(ValuesOf(hs, "ST"))]
  OBVIOUS
<1>9. ParseResponse(v) = <<r>>
  BY <1>2, <1>4, <1>6, <1>7, <1>8, Zenon DEF ParseResponse
<1>10. \A f \in DOMAIN Keys :
          /\ LastOf(ValuesOf(hs, Keys[f])) \in {<<>>, p.sent[f]}
          /\ m = Len(p.headers) => LastOf(ValuesOf(hs, Keys[f])) = p.sent[f]
  <2>. SUFFICES ASSUME NEW f \in DOMAIN Keys
                PROVE  /\ LastOf(ValuesOf(hs, Keys[f])) \in {<<>>, p.sent[f]}
                       /\ m = Len(p.headers) => LastOf(ValuesOf(hs, Keys[f])) = p.sent[f]
    OBVIOUS
  <2>1. PICK c : IsSent(p, Keys[f], p.sent[f], c)
    BY FieldsAreSent
  <2>2. PICK s, key : s = p.sent[f] /\ key = Keys[f]
    OBVIOUS
  <2>3. IsSent(p, key, s, c)
    BY <2>1, <2>2
  <2>4. /\ LastOf(ValuesOf(hs, key)) \in {<<>>, s}
        /\ m = Len(p.headers) => LastOf(ValuesOf(hs, key)) = s
    BY <1>1, <1>5, <2>3, FieldIs
  <2>. QED  BY <2>2, <2>4
<1>11. r.uuid \in {<<>>, p.sent.uuid} /\ (m = Len(p.headers) => r.uuid = p.sent.uuid)
  <2>1. r.uuid = LastOf(FlattenSeq([i \in DOMAIN usns |-> UuidsOf(usns[i])]))
    BY <1>8
  <2>. QED  BY <1>5, <1>7, <2>1, UuidFieldIs
<1>12. \A f \in DOMAIN Keys : r[f] = LastOf(ValuesOf(hs, Keys[f]))
  BY <1>7, <1>8, KeysAre
<1>13. \A f \in Fields : r[f] \in {<<>>, p.sent[f]} /\ (m = Len(p.headers) => r[f] = p.sent[f])
  BY <1>10, <1>11, <1>12, KeysAre
<1>14. <<r>> # <<>> /\ <<r>>[1] = r
  OBVIOUS
<1>. QED  BY <1>3, <1>9, <1>13, <1>14 DEF AsSent

-----------------------------------------------------------------------------
(* The invariant.  A URL is well-formed, and either its path can be        *)
(* replaced or no request can be sent to it: that is what query_root_device*)
(* sees to, long before the first replace_path.                            *)

Urls == [buf : Seq(Chars), base : Nat, part : [Parts -> [ptr : Int, len : Nat]]]

IsSafe(u) ==
    /\ u \in Urls /\ IsUrl(u, Chars)
    /\ CanReplacePath(u) \/ ConsumeEndpoint(HostAndPort(u)) = <<>>

(* The path of a control URL, wherever its buffer is.                      *)
PathOf(c, b) == TextOf(MovedTo(ParseUrl(Printed(c), b), b), "path")

IsGateway(u, location, c) ==
    /\ u \in Urls /\ IsUrl(u, Chars)
    /\ HostAndPort(u) = HostAndPort(location)
    /\ \A b \in Nat \ {0} :
          /\ Texts(u) = [Texts(location) EXCEPT !["path"] = PathOf(c, b)]
          /\ u.buf = WithPath(location, PathOf(c, b))

(* A URL that shows what another one shows, somewhere else.                *)
IsLike(u, v) ==
    /\ u.buf = v.buf /\ Starts(u) = Starts(v) /\ Lengths(u) = Lengths(v)
    /\ Texts(u) = Texts(v) /\ HostAndPort(u) = HostAndPort(v)

(* What the URL of a response is made of.                                  *)
IsFrom(u, location) ==
    IF location = <<>> THEN HostAndPort(u) = <<>>
    ELSE \E b \in Nat \ {0} : IsLike(u, ParseUrl(location[1], b))

(* What a request asks for: the path in the LOCATION, or its igd's.        *)
AsksFor(r, location, cs) ==
    /\ r.of = 0 => r.path = TextOf(location, "path")
    /\ r.of # 0 => \A b \in Nat \ {0} : r.path = PathOf(cs[r.of], b)

Endpoint == ConsumeEndpoint(HostAndPort(rsp.url))

UrlsInv ==
    /\ pc \in {"receiving", "querying", "collecting", "over"}
    /\ packet \in Packets
    /\ services \in Descriptions \cup {<<>>}
    /\ thrown = FALSE
    /\ IsSafe(rsp.url)
    /\ pc \in {"receiving", "querying"} => services = <<>> /\ igds = <<>> /\ requests = {}
    /\ AsSent(rsp, packet) /\ IsFrom(rsp.url, rsp.location)
    /\ pc = "collecting" \/ igds # <<>> \/ requests # {} => Endpoint # <<>>
    /\ igds \in Seq(Urls)
    /\ Len(igds) <= Len(services)
    /\ \A i \in 1 .. Len(igds) : IsGateway(igds[i], rsp.url, services[i])
    /\ \A r \in requests :
          r.of \in 0 .. Len(igds) /\ r.to = Endpoint /\ AsksFor(r, rsp.url, services)

(* What is default-constructed has no path to replace: what keeps it from  *)
(* replace_path is that it has no endpoint either.                         *)
LEMMA NoUrlIsSafe ==
    ASSUME NEW base \in Nat \ {0}
    PROVE  IsSafe(NoUrl(base)) /\ HostAndPort(NoUrl(base)) = <<>>
<1>1. PICK u : u = NoUrl(base)
  OBVIOUS
<1>2. /\ u.buf = <<>> /\ u.base = base /\ u.part = [p \in Parts |-> Null]
      /\ u.part \in [Parts -> [ptr : Int, len : Nat]] /\ <<>> \in Seq(Chars) /\ Len(u.buf) = 0
  BY <1>1 DEF NoUrl, Null
<1>3. \A p \in Parts : Starts(u)[p] = 0 - base /\ Lengths(u)[p] = 0
  BY <1>2 DEF Starts, Lengths, Null
<1>4. {"host", "port", "path"} \subseteq Parts
  BY DEF Parts
<1>5. InOrder(Starts(u), Lengths(u), 0)
  <2>1. \A p \in Parts : ~Shown(Starts(u), Lengths(u), 0, p)
    BY <1>3, <1>4 DEF Shown
  <2>. QED  BY <1>3, <1>4, <2>1 DEF InOrder
<1>6. IsUrl(u, Chars)
  BY <1>2, <1>5 DEF IsUrl
<1>7. u \in Urls
  BY <1>1, <1>2 DEF Urls, NoUrl
<1>8. HostAndPort(u) = <<>>
  <2>1. u.part["host"] = Null /\ u.part["port"] = Null /\ Null.len = 0
    BY <1>2, <1>4 DEF Null
  <2>2. TextOf(u, "host") = <<>>
    BY <1>2, <2>1, NullShows
  <2>. QED  BY <2>1, <2>2, Zenon DEF HostAndPort
<1>9. ConsumeEndpoint(HostAndPort(u)) = <<>>
  <2>1. \A i \in 1 .. Len(<<>>) : <<>>[i] # ":"
    OBVIOUS
  <2>. QED  BY <1>8, <2>1, NoColonNoEndpoint
<1>. QED  BY <1>1, <1>6, <1>7, <1>8, <1>9 DEF IsSafe

(* Copies and moves of URLs that are safe are safe.                        *)
LEMMA MovesAreSafe ==
    ASSUME NEW u, IsSafe(u), NEW b \in Nat, NEW v \in {MovedTo(u, b), CopyOf(u, b)}
    PROVE  IsSafe(v) /\ IsLike(v, u)
<1>1. IsUrl(u, Chars)
  BY DEF IsSafe
<1>2. IsUrl(v, Chars) /\ v.buf = u.buf /\ Starts(v) = Starts(u) /\ Lengths(v) = Lengths(u)
  BY <1>1, MovedViews
<1>3. HostAndPort(v) = HostAndPort(u) /\ (CanReplacePath(v) <=> CanReplacePath(u))
  BY <1>1, MovesKeepEndpoint
<1>4. Texts(v) = Texts(u)
  BY <1>1, MovesKeepTexts
<1>5. v \in Urls
  <2>1. v = [buf |-> v.buf, base |-> v.base, part |-> v.part]
    BY DEF MovedTo, CopyOf
  <2>. QED  BY <1>2, <2>1 DEF IsUrl, Urls
<1>. QED  BY <1>2, <1>3, <1>4, <1>5 DEF IsSafe, IsLike

(* So is a URL that has been parsed.                                       *)
LEMMA ParsedUrlsAreSafe ==
    ASSUME NEW text \in Seq(Chars), NEW base \in Nat \ {0}
    PROVE  IsSafe(ParseUrl(text, base))
<1>1. PICK u : u = ParseUrl(text, base)
  OBVIOUS
<1>2. IsUrl(u, Chars)
  BY <1>1, ParsedUrls
<1>3. CanReplacePath(u) \/ ConsumeEndpoint(HostAndPort(u)) = <<>>
  BY <1>1, NoPathNoEndpoint
<1>4. u \in Urls
  <2>1. u = [buf |-> u.buf, base |-> u.base, part |-> u.part]
    BY <1>1, Zenon DEF ParseUrl
  <2>2. u.buf \in Seq(Chars) /\ u.base \in Nat /\ u.part \in [Parts -> [ptr : Int, len : Nat]]
    BY <1>2 DEF IsUrl
  <2>. QED  BY <2>1, <2>2 DEF Urls
<1>. QED  BY <1>1, <1>2, <1>3, <1>4 DEF IsSafe

(* The path of a control URL is a text, and the same wherever it is read.  *)
LEMMA ControlPaths ==
    ASSUME NEW c \in [Parts -> Seq(Chars)], NEW a \in Nat \ {0}, NEW b \in Nat \ {0}
    PROVE  PathOf(c, a) \in Seq(Chars) /\ PathOf(c, a) = PathOf(c, b)
<1>1. PICK text \in Seq(Chars) : text = Printed(c)
  <2>1. {":", "/", "@", "?", "#"} \subseteq Chars
    BY Zenon DEF Chars
  <2>. QED  BY <2>1, PrintedIsText
<1>2. "path" \in Parts
  BY DEF Parts
<1>3. \A x \in Nat \ {0} : /\ IsUrl(MovedTo(ParseUrl(text, x), x), Chars)
                           /\ Texts(MovedTo(ParseUrl(text, x), x)) = Texts(ParseUrl(text, x))
  BY ParsedUrls, MovesKeepTexts
<1>4. \A x \in Nat \ {0} : PathOf(c, x) = Texts(ParseUrl(text, x))["path"]
  BY <1>1, <1>2, <1>3 DEF PathOf, Texts
<1>5. Texts(ParseUrl(text, a)) = Texts(ParseUrl(text, b))
  BY ParsedTexts
<1>6. TextOf(MovedTo(ParseUrl(text, a), a), "path") \in Seq(Chars)
  BY <1>2, <1>3, TextsAreIn
<1>. QED  BY <1>1, <1>4, <1>5, <1>6 DEF PathOf

(* A gateway is still one when its URL is moved, and a copy of the LOCATION*)
(* is one when its path has been replaced.                                 *)
LEMMA GatewaysMove ==
    ASSUME NEW u, NEW l, NEW c, IsGateway(u, l, c),
           NEW b \in Nat, NEW v \in {MovedTo(u, b), CopyOf(u, b)}
    PROVE  IsGateway(v, l, c)
<1>1. IsUrl(u, Chars) /\ HostAndPort(u) = HostAndPort(l)
      /\ \A x \in Nat \ {0} : /\ Texts(u) = [Texts(l) EXCEPT !["path"] = PathOf(c, x)]
                              /\ u.buf = WithPath(l, PathOf(c, x))
  BY DEF IsGateway
<1>2. IsUrl(v, Chars) /\ v.buf = u.buf
  BY <1>1, MovedViews
<1>3. HostAndPort(v) = HostAndPort(u)
  BY <1>1, MovesKeepEndpoint
<1>4. Texts(v) = Texts(u)
  BY <1>1, MovesKeepTexts
<1>5. v \in Urls
  <2>1. v = [buf |-> v.buf, base |-> v.base, part |-> v.part]
    BY DEF MovedTo, CopyOf
  <2>. QED  BY <1>2, <2>1 DEF IsUrl, Urls
<1>. QED  BY <1>1, <1>2, <1>3, <1>4, <1>5 DEF IsGateway

LEMMA ReplacedBuffer ==
    ASSUME NEW u, NEW path, NEW b
    PROVE  ReplacePath(u, path, b).buf = WithPath(u, path)
<1>1. /\ Starts(u)["path"] = u.part["path"].ptr - u.base
      /\ Lengths(u)["path"] = u.part["path"].len
  BY DEF Starts, Lengths, Parts
<1>2. ReplacePath(u, path, b).buf =
         SubSeq(u.buf, 1, u.part["path"].ptr - u.base) \o path
            \o SubSeq(u.buf, u.part["path"].ptr - u.base + u.part["path"].len + 1, Len(u.buf))
  BY DEF ReplacePath
<1>. QED  BY <1>1, <1>2, Zenon DEF WithPath

LEMMA NewGateway ==
    ASSUME NEW l, IsSafe(l), CanReplacePath(l), NEW c \in [Parts -> Seq(Chars)],
           NEW from \in Bases, NEW to \in Bases
    PROVE  IsGateway(ReplacePath(CopyOf(l, from), PathOf(c, from), to), l, c)
<1>1. from \in Nat \ {0} /\ to \in Nat \ {0}
  BY IgdUrlsAssumption
<1>2. PICK u : u = CopyOf(l, from)
  OBVIOUS
<1>3. IsSafe(u) /\ IsLike(u, l)
  BY <1>1, <1>2, MovesAreSafe
<1>4. IsUrl(u, Chars) /\ CanReplacePath(u)
  <2>1. IsUrl(l, Chars)
    BY DEF IsSafe
  <2>2. CanReplacePath(u) <=> CanReplacePath(l)
    BY <1>1, <1>2, <2>1, MovesKeepEndpoint
  <2>. QED  BY <1>3, <2>2 DEF IsSafe
<1>5. PICK path : path = PathOf(c, from)
  OBVIOUS
<1>6. path \in Seq(Chars) /\ \A x \in Nat \ {0} : path = PathOf(c, x)
  BY <1>1, <1>5, ControlPaths
<1>7. PICK v : v = ReplacePath(u, path, to)
  OBVIOUS
<1>8. IsUrl(v, Chars) /\ Texts(v) = [Texts(u) EXCEPT !["path"] = path]
  BY <1>1, <1>4, <1>6, <1>7, PathIsReplaced
<1>9. HostAndPort(v) = HostAndPort(u)
  BY <1>1, <1>4, <1>6, <1>7, ReplacedEndpoint
<1>10. v \in Urls
  <2>1. v = [buf |-> v.buf, base |-> v.base, part |-> v.part]
    BY <1>7 DEF ReplacePath
  <2>2. v.buf \in Seq(Chars) /\ v.base \in Nat /\ v.part \in [Parts -> [ptr : Int, len : Nat]]
    BY <1>8 DEF IsUrl
  <2>. QED  BY <2>1, <2>2 DEF Urls
<1>11. v.buf = WithPath(l, path)
  <2>1. u.buf = l.buf /\ Starts(u) = Starts(l) /\ Lengths(u) = Lengths(l)
    BY <1>3 DEF IsLike
  <2>2. WithPath(u, path) = WithPath(l, path)
    BY <2>1, Zenon DEF WithPath
  <2>3. v.buf = WithPath(u, path)
    BY <1>7, ReplacedBuffer
  <2>. QED  BY <2>2, <2>3
<1>12. HostAndPort(u) = HostAndPort(l) /\ Texts(u) = Texts(l)
  BY <1>3 DEF IsLike
<1>13. IsGateway(v, l, c)
  BY <1>6, <1>8, <1>9, <1>10, <1>11, <1>12 DEF IsGateway
<1>. QED  BY <1>2, <1>5, <1>7, <1>13

-----------------------------------------------------------------------------
(* The inductive invariant: the igds are gateways of the response's URL,   *)
(* and what lets replace_path do without a check is that discover has got  *)
(* an endpoint out of the LOCATION before it collects them.                *)

LEMMA DatagramIsText ==
    ASSUME NEW p, IsAnswer(p)
    PROVE  Datagram(p) \in Seq(Chars)
<1>1. IsInParts(p)
  BY AnswersAreInParts
<1>2. PICK t : Joined(Chars, Datagram(p), t, p.rest)
  BY <1>1, FrontOfDatagram
<1>. QED  BY <1>2, JoinedElements

(* What has arrived of a datagram is a response with fields that were sent.*)
LEMMA PartsOfAnswers ==
    ASSUME NEW p, IsAnswer(p), NEW n \in 0 .. Len(Datagram(p)),
           NEW r, r = ParseResponse(SubSeq(Datagram(p), 1, n))
    PROVE  AsSent(r[1], p) /\ r[1].location \in {<<>>, <<Printed(p.location)>>}
<1>1. PICK v : IsPiece(v, Datagram(p), 1, n)
  BY DEF IsPiece
<1>2. IsCut(Chars, v, Datagram(p)) /\ r = ParseResponse(v)
  <2>1. Datagram(p) \in Seq(Chars)
    BY DatagramIsText
  <2>. QED  BY <1>1, <2>1, CutIs DEF IsPiece
<1>3. AsSent(r[1], p)
  BY <1>2, AnswersAre
<1>4. r[1].location \in {<<>>, p.sent.location}
  BY <1>3, KeysAre DEF AsSent
<1>5. p.sent.location \in {<<>>, <<Printed(p.location)>>}
  BY DEF IsAnswer
<1>. QED  BY <1>3, <1>4, <1>5

LEMMA LocationIsText ==
    ASSUME NEW p, IsAnswer(p)
    PROVE  p.location \in [Parts -> Seq(Chars)] /\ Printed(p.location) \in Seq(Chars)
<1>1. p.location \in [Parts -> Seq(Chars)]
  <2>1. PICK T, U : T = Seq(STRING) /\ U = Seq(Chars) /\ T \subseteq U
    BY CharsHave, Zenon
  <2>2. p.location \in [Parts -> T]
    BY <2>1 DEF IsAnswer
  <2>. QED  BY <2>1, <2>2
<1>2. {":", "/", "@", "?", "#"} \subseteq Chars
  BY DEF Chars
<1>. QED  BY <1>1, <1>2, PrintedIsText

LEMMA InitUrls == Init => UrlsInv
<1>. SUFFICES ASSUME Init PROVE UrlsInv
  OBVIOUS
<1>1. rsp.url = NoUrl(1) /\ rsp.location = <<>> /\ 1 \in Nat \ {0}
  BY DEF Init, NoResponse
<1>2. IsSafe(rsp.url) /\ IsFrom(rsp.url, rsp.location)
  BY <1>1, NoUrlIsSafe DEF IsFrom
<1>3. AsSent(rsp, packet)
  <2>1. \A f \in {"usn", "location", "service_type", "uuid"} : rsp[f] = <<>>
    BY DEF Init, NoResponse
  <2>. QED  BY <2>1, KeysAre DEF AsSent
<1>. QED  BY <1>2, <1>3 DEF Init, UrlsInv

LEMMA ReceiveUrls ==
    ASSUME UrlsInv, Receive
    PROVE  UrlsInv'
<1>1. /\ pc = "receiving" /\ services = <<>> /\ igds = <<>> /\ requests = {}
      /\ UNCHANGED <<packet, services, igds, requests, thrown>>
  BY DEF UrlsInv, Receive
<1>2. packet \in Packets /\ IsAnswer(packet)
  BY IgdUrlsAssumption DEF UrlsInv
<1>3. PICK n \in 0 .. Len(Datagram(packet)), from \in Bases, to \in Bases :
         LET r   == ParseResponse(SubSeq(Datagram(packet), 1, n))
             url == IF r[1].location = <<>> THEN NoUrl(from) ELSE ParseUrl(r[1].location[1], from)
         IN  IF r = <<>> THEN pc' = "over" /\ UNCHANGED rsp
             ELSE /\ pc' = "querying"
                  /\ rsp' = [usn |-> r[1].usn, uuid |-> r[1].uuid, location |-> r[1].location,
                             service_type |-> r[1].service_type,
                             url |-> MovedTo(CopyOf(url, to), from)]
  BY DEF Receive
<1>4. from \in Nat \ {0} /\ to \in Nat \ {0}
  BY <1>3, IgdUrlsAssumption
<1>5. PICK r : r = ParseResponse(SubSeq(Datagram(packet), 1, n))
  OBVIOUS
<1>6. PICK url : url = IF r[1].location = <<>> THEN NoUrl(from) ELSE ParseUrl(r[1].location[1], from)
  OBVIOUS
<1>7. AsSent(r[1], packet) /\ r[1].location \in {<<>>, <<Printed(packet.location)>>}
  BY <1>2, <1>3, <1>5, PartsOfAnswers
<1>8. IsSafe(url) /\ IsFrom(url, r[1].location)
  <2>1. CASE r[1].location = <<>>
    BY <1>4, <1>6, <2>1, NoUrlIsSafe DEF IsFrom
  <2>2. CASE r[1].location # <<>>
    <3>1. PICK text \in Seq(Chars) : text = Printed(packet.location) /\ r[1].location = <<text>>
      BY <1>2, <1>7, <2>2, LocationIsText
    <3>2. r[1].location[1] = text
      BY <3>1
    <3>3. url = ParseUrl(text, from)
      BY <1>6, <2>2, <3>2
    <3>4. IsSafe(url)
      BY <1>4, <3>3, ParsedUrlsAreSafe
    <3>5. IsLike(url, ParseUrl(r[1].location[1], from))
      BY <3>2, <3>3 DEF IsLike
    <3>. QED  BY <1>4, <2>2, <3>4, <3>5 DEF IsFrom
  <2>. QED  BY <2>1, <2>2
<1>9. PICK moved : moved = MovedTo(CopyOf(url, to), from)
  OBVIOUS
<1>10. IsSafe(moved) /\ IsFrom(moved, r[1].location)
  <2>1. IsSafe(CopyOf(url, to)) /\ IsLike(CopyOf(url, to), url)
    BY <1>4, <1>8, MovesAreSafe
  <2>2. IsSafe(moved) /\ IsLike(moved, CopyOf(url, to))
    BY <1>4, <1>9, <2>1, MovesAreSafe
  <2>. QED  BY <1>8, <2>1, <2>2 DEF IsLike, IsFrom
<1>11. \/ pc' = "over" /\ rsp' = rsp
       \/ /\ pc' = "querying"
          /\ rsp' = [usn |-> r[1].usn, uuid |-> r[1].uuid, location |-> r[1].location,
                     service_type |-> r[1].service_type, url |-> moved]
  BY <1>3, <1>5, <1>6, <1>9
<1>12. /\ IsSafe(rsp'.url) /\ AsSent(rsp', packet') /\ IsFrom(rsp'.url, rsp'.location)
       /\ pc' \in {"over", "querying"}
  <2>1. CASE pc' = "over" /\ rsp' = rsp
    BY <1>1, <2>1 DEF UrlsInv
  <2>2. CASE /\ pc' = "querying"
             /\ rsp' = [usn |-> r[1].usn, uuid |-> r[1].uuid, location |-> r[1].location,
                        service_type |-> r[1].service_type, url |-> moved]
    <3>1. rsp'.url = moved /\ rsp'.location = r[1].location
      BY <2>2
    <3>2. \A f \in {"usn", "location", "service_type", "uuid"} : rsp'[f] = r[1][f]
      BY <2>2
    <3>3. AsSent(rsp', packet')
      BY <1>1, <1>7, <3>2, KeysAre DEF AsSent
    <3>. QED  BY <1>10, <2>2, <3>1, <3>3
  <2>. QED  BY <1>11, <2>1, <2>2
<1>. QED  BY <1>1, <1>12 DEF UrlsInv

LEMMA QueryUrls ==
    ASSUME UrlsInv, QueryRootDevice
    PROVE  UrlsInv'
<1>1. /\ pc = "querying" /\ services = <<>> /\ igds = <<>> /\ requests = {}
      /\ UNCHANGED <<packet, rsp, igds, thrown>>
  BY DEF UrlsInv, QueryRootDevice
<1>2. /\ Endpoint' = Endpoint /\ IsSafe(rsp'.url)
      /\ AsSent(rsp', packet') /\ IsFrom(rsp'.url, rsp'.location)
  BY <1>1 DEF Endpoint, UrlsInv
<1>3. /\ Request(0, rsp.url).of = 0 /\ Request(0, rsp.url).to = Endpoint
      /\ Request(0, rsp.url).path = TextOf(rsp.url, "path")
  BY DEF Request, Endpoint
<1>4. CASE Endpoint = <<>>
  <2>1. pc' = "over" /\ UNCHANGED <<services, requests>>
    BY <1>3, <1>4 DEF QueryRootDevice
  <2>. QED  BY <1>1, <1>2, <2>1 DEF UrlsInv
<1>5. CASE Endpoint # <<>>
  <2>1. pc' = "collecting" /\ services' \in Descriptions /\ requests' = {Request(0, rsp.url)}
    BY <1>3, <1>5 DEF QueryRootDevice
  <2>2. \A r \in requests' :
           r.of \in 0 .. Len(igds') /\ r.to = Endpoint' /\ AsksFor(r, rsp'.url, services')
    BY <1>1, <1>2, <1>3, <2>1 DEF AsksFor
  <2>3. services' \in Seq([Parts -> Seq(STRING)])
    BY <2>1, IgdUrlsAssumption
  <2>4. igds' \in Seq(Urls) /\ Len(igds') = 0 /\ Len(services') \in Nat
    BY <1>1, <2>3
  <2>. QED  BY <1>1, <1>2, <1>5, <2>1, <2>2, <2>4 DEF UrlsInv
<1>. QED  BY <1>4, <1>5

LEMMA CollectUrls ==
    ASSUME UrlsInv, CollectGateway
    PROVE  UrlsInv'
<1>1. /\ pc = "collecting" /\ Endpoint # <<>> /\ IsSafe(rsp.url)
      /\ Len(igds) < Len(services) /\ igds \in Seq(Urls)
      /\ services \in Descriptions \cup {<<>>}
      /\ AsSent(rsp, packet) /\ IsFrom(rsp.url, rsp.location)
      /\ UNCHANGED <<packet, rsp, services, requests>>
  BY DEF UrlsInv, CollectGateway
<1>2. Endpoint' = Endpoint
  BY <1>1 DEF Endpoint
<1>3. CanReplacePath(rsp.url)
  BY <1>1 DEF IsSafe, Endpoint
<1>4. PICK n \in Nat \ {0} : n = Len(igds) + 1
  BY <1>1
<1>5. n \in 1 .. Len(services) /\ services[n] \in [Parts -> Seq(Chars)]
      /\ Len(services) \in Nat
  <2>1. services \in Seq([Parts -> Seq(STRING)])
    BY <1>1, IgdUrlsAssumption
  <2>2. n \in 1 .. Len(services) /\ Len(services) \in Nat
    BY <1>1, <1>4, <2>1
  <2>3. services[n] \in [Parts -> Seq(STRING)]
    BY <2>1, <2>2
  <2>4. Seq(STRING) \subseteq Seq(Chars)
    BY CharsHave, Zenon
  <2>. QED  BY <2>2, <2>3, <2>4
<1>6. PICK from \in Bases, to \in Bases :
         LET url == CopyOf(rsp.url, from)
             new == ReplacePath(url, ControlPath(n, from), to)
             all == Append(igds, CopyOf(new, from))
         IN  IF CanReplacePath(url)
             THEN /\ \E home \in [1 .. n -> Bases] :
                        igds' = [i \in 1 .. n |-> MovedTo(all[i], home[i])]
                  /\ UNCHANGED <<thrown, pc>>
             ELSE thrown' = TRUE /\ pc' = "over" /\ UNCHANGED igds
  BY <1>4 DEF CollectGateway
<1>7. from \in Nat \ {0} /\ to \in Nat \ {0} /\ Bases \subseteq Nat \ {0}
  BY IgdUrlsAssumption
<1>8. CanReplacePath(CopyOf(rsp.url, from))
  <2>1. IsUrl(rsp.url, Chars)
    BY <1>1 DEF IsSafe
  <2>. QED  BY <1>3, <1>7, <2>1, MovesKeepEndpoint
<1>9. PICK new : new = ReplacePath(CopyOf(rsp.url, from), PathOf(services[n], from), to)
  OBVIOUS
<1>10. new = ReplacePath(CopyOf(rsp.url, from), ControlPath(n, from), to)
  BY <1>9 DEF PathOf, ControlPath
<1>11. IsGateway(CopyOf(new, from), rsp.url, services[n])
  <2>1. IsGateway(new, rsp.url, services[n])
    BY <1>1, <1>3, <1>5, <1>9, NewGateway
  <2>. QED  BY <1>7, <2>1, GatewaysMove
<1>12. PICK all : all = Append(igds, CopyOf(new, from))
  OBVIOUS
<1>13. \A i \in 1 .. n : IsGateway(all[i], rsp.url, services[i])
  <2>1. SUFFICES ASSUME NEW i \in 1 .. n PROVE IsGateway(all[i], rsp.url, services[i])
    OBVIOUS
  <2>2. CASE i = n
    <3>1. all[i] = CopyOf(new, from)
      BY <1>1, <1>4, <1>12, <2>2
    <3>. QED  BY <1>11, <2>2, <3>1
  <2>3. CASE i # n
    <3>1. i \in 1 .. Len(igds) /\ all[i] = igds[i]
      BY <1>1, <1>4, <1>12, <2>3
    <3>. QED  BY <3>1 DEF UrlsInv
  <2>. QED  BY <2>2, <2>3
<1>14. PICK home \in [1 .. n -> Bases] : igds' = [i \in 1 .. n |-> MovedTo(all[i], home[i])]
  BY <1>6, <1>8, <1>10, <1>12
<1>15. UNCHANGED <<thrown, pc>>
  BY <1>6, <1>8
<1>16. \A i \in 1 .. n : IsGateway(igds'[i], rsp.url, services[i])
  <2>1. SUFFICES ASSUME NEW i \in 1 .. n PROVE IsGateway(igds'[i], rsp.url, services[i])
    OBVIOUS
  <2>2. home[i] \in Nat
    BY <1>7, <1>14
  <2>3. igds'[i] = MovedTo(all[i], home[i])
    BY <1>14
  <2>. QED  BY <1>13, <2>2, <2>3, GatewaysMove
<1>17. igds' \in Seq(Urls) /\ Len(igds') = n
  <2>1. \A i \in 1 .. n : igds'[i] \in Urls
    BY <1>16 DEF IsGateway
  <2>. QED  BY <1>14, <2>1
<1>18. \A r \in requests' :
          r.of \in 0 .. Len(igds') /\ r.to = Endpoint' /\ AsksFor(r, rsp'.url, services')
  <2>1. \A r \in requests :
           r.of \in 0 .. Len(igds) /\ r.to = Endpoint /\ AsksFor(r, rsp.url, services)
    BY DEF UrlsInv
  <2>. QED  BY <1>1, <1>2, <1>4, <1>17, <2>1
<1>19. /\ IsSafe(rsp'.url) /\ AsSent(rsp', packet') /\ IsFrom(rsp'.url, rsp'.location)
       /\ Endpoint' # <<>> /\ Len(igds') <= Len(services')
       /\ \A i \in 1 .. Len(igds') : IsGateway(igds'[i], rsp'.url, services'[i])
  BY <1>1, <1>2, <1>5, <1>16, <1>17
<1>. QED  BY <1>1, <1>15, <1>17, <1>18, <1>19 DEF UrlsInv

LEMMA SendUrls ==
    ASSUME UrlsInv, SendRequest
    PROVE  UrlsInv'
<1>1. UNCHANGED <<pc, packet, rsp, services, igds, thrown>> /\ pc = "collecting"
  BY DEF SendRequest
<1>2. Endpoint' = Endpoint
  BY <1>1 DEF Endpoint
<1>3. PICK i \in DOMAIN igds : requests' = requests \cup {Request(i, igds[i])}
  BY DEF SendRequest
<1>4. i \in 1 .. Len(igds) /\ Len(igds) \in Nat
  BY <1>3 DEF UrlsInv
<1>5. /\ HostAndPort(igds[i]) = HostAndPort(rsp.url)
      /\ \A b \in Nat \ {0} :
            Texts(igds[i]) = [Texts(rsp.url) EXCEPT !["path"] = PathOf(services[i], b)]
  BY <1>4 DEF UrlsInv, IsGateway
<1>6. /\ Request(i, igds[i]).of = i /\ Request(i, igds[i]).to = Endpoint
      /\ Request(i, igds[i]).path = TextOf(igds[i], "path")
  BY <1>5 DEF Request, Endpoint
<1>6a. AsksFor(Request(i, igds[i]), rsp.url, services)
  <2>1. "path" \in Parts
    BY DEF Parts
  <2>2. TextOf(igds[i], "path") = Texts(igds[i])["path"] /\ "path" \in DOMAIN Texts(rsp.url)
    BY <2>1 DEF Texts
  <2>3. \A b \in Nat \ {0} : TextOf(igds[i], "path") = PathOf(services[i], b)
    BY <1>5, <2>2
  <2>. QED  BY <1>4, <1>6, <2>3 DEF AsksFor
<1>7. \A r \in requests' :
         r.of \in 0 .. Len(igds') /\ r.to = Endpoint' /\ AsksFor(r, rsp'.url, services')
  <2>1. \A r \in requests :
           r.of \in 0 .. Len(igds) /\ r.to = Endpoint /\ AsksFor(r, rsp.url, services)
    BY DEF UrlsInv
  <2>2. i \in 0 .. Len(igds)
    BY <1>4
  <2>. QED  BY <1>1, <1>2, <1>3, <1>6, <1>6a, <2>1, <2>2
<1>8. \A j \in 1 .. Len(igds') : IsGateway(igds'[j], rsp'.url, services'[j])
  BY <1>1 DEF UrlsInv
<1>9. /\ IsSafe(rsp'.url) /\ AsSent(rsp', packet') /\ IsFrom(rsp'.url, rsp'.location)
      /\ Endpoint' # <<>>
  BY <1>1, <1>2 DEF UrlsInv
<1>. QED  BY <1>1, <1>2, <1>7, <1>8, <1>9 DEF UrlsInv

LEMMA NextUrls == UrlsInv /\ [Next]_vars => UrlsInv'
<1>. SUFFICES ASSUME UrlsInv, [Next]_vars PROVE UrlsInv'
  OBVIOUS
<1>1. CASE Receive
  BY <1>1, ReceiveUrls
<1>2. CASE QueryRootDevice
  BY <1>2, QueryUrls
<1>3. CASE CollectGateway
  BY <1>3, CollectUrls
<1>4. CASE SendRequest
  BY <1>4, SendUrls
<1>5. CASE UNCHANGED vars
  <2>1. /\ UNCHANGED <<pc, packet, rsp, services, igds, requests, thrown>>
        /\ Endpoint' = Endpoint
    BY <1>5 DEF vars, Endpoint
  <2>2. \A j \in 1 .. Len(igds') : IsGateway(igds'[j], rsp'.url, services'[j])
    BY <2>1 DEF UrlsInv
  <2>3. \A r \in requests' :
           r.of \in 0 .. Len(igds') /\ r.to = Endpoint' /\ AsksFor(r, rsp'.url, services')
    BY <2>1 DEF UrlsInv
  <2>4. AsSent(rsp', packet') /\ IsFrom(rsp'.url, rsp'.location)
    BY <2>1 DEF UrlsInv
  <2>. QED  BY <2>1, <2>2, <2>3, <2>4 DEF UrlsInv
<1>. QED  BY <1>1, <1>2, <1>3, <1>4, <1>5 DEF Next

(* The response's URL is well-formed in its buffer, each igd's is that URL *)
(* with the path of its own service, and every request was sent to their   *)
(* common endpoint, whatever was received and whichever buffers were moved *)
(* (ssdp.cpp:156-217, igd.cpp:345-369, 236-245).                           *)
THEOREM UrlsAreGateways == Spec => []UrlsInv
<1>. QED  BY InitUrls, NextUrls, PTL DEF Spec

-----------------------------------------------------------------------------

LEMMA ViewsOfUrls ==
    ASSUME NEW S, NEW u, IsUrl(u, S)
    PROVE  ViewsAreInside(u)
<1>1. u.base \in Nat /\ u.part \in [Parts -> [ptr : Int, len : Nat]] /\ Len(u.buf) \in Nat
  BY DEF IsUrl
<1>2. SUFFICES ASSUME NEW p \in Parts, u.part[p].len > 0
               PROVE  /\ u.part[p].ptr >= u.base
                      /\ u.part[p].ptr + u.part[p].len <= u.base + Len(u.buf)
  BY DEF ViewsAreInside
<1>3. u.part[p].ptr \in Int /\ u.part[p].len \in Nat
  BY <1>1
<1>4. Starts(u)[p] = u.part[p].ptr - u.base /\ Lengths(u)[p] = u.part[p].len
  BY DEF Starts, Lengths
<1>5. 0 <= Starts(u)[p] /\ Starts(u)[p] + Lengths(u)[p] <= Len(u.buf)
  BY <1>2, <1>4 DEF IsUrl, InOrder, Shown
<1>6. PICK x \in Int, l \in Nat, b \in Nat, n \in Nat :
         x = u.part[p].ptr /\ l = u.part[p].len /\ b = u.base /\ n = Len(u.buf)
  BY <1>1, <1>3
<1>7. 0 <= x - b /\ (x - b) + l <= n
  BY <1>4, <1>5, <1>6
<1>8. x >= b /\ x + l <= b + n
  BY <1>7
<1>. QED  BY <1>6, <1>8

(* No URL has a view left behind in a buffer that is gone: whatever the    *)
(* datagram and the description are, and wherever the buffers are, each    *)
(* part that is not empty lies in the buffer of the url_t that has it, in  *)
(* the response and in every igd (url.h:14-83, igd.cpp:359-369).           *)
THEOREM UrlTypes == Spec => []TypeOK
<1>1. UrlsInv => TypeOK
  <2>. SUFFICES ASSUME UrlsInv PROVE TypeOK
    OBVIOUS
  <2>1. ViewsAreInside(rsp.url)
    BY ViewsOfUrls DEF UrlsInv, IsSafe
  <2>2. \A i \in 1 .. Len(igds) : ViewsAreInside(igds[i])
    BY ViewsOfUrls DEF UrlsInv, IsGateway
  <2>3. DOMAIN igds = 1 .. Len(igds)
    BY DEF UrlsInv
  <2>. QED  BY <2>1, <2>2, <2>3 DEF TypeOK, UrlsInv
<1>. QED  BY <1>1, UrlsAreGateways, PTL

(* replace_path never computes a position from a null view: the LOCATION   *)
(* has given an endpoint before, and none without a path does (igd.cpp:397,*)
(* url.h:57-83), for every datagram, description and placing of buffers.   *)
THEOREM PathsAreReplaced == Spec => []PathsCanBeReplaced
<1>1. UrlsInv => PathsCanBeReplaced
  BY DEF UrlsInv, PathsCanBeReplaced
<1>. QED  BY <1>1, UrlsAreGateways, PTL

(* Every gateway's URL is the LOCATION with the path of its own control    *)
(* URL, whatever has been copied and moved since (igd.cpp:359-369), and    *)
(* all the requests of one response go to one endpoint: the query of the   *)
(* root device and those of every gateway found there (igd.cpp:397, 244).  *)
THEOREM GatewaysDifferInThePath == Spec => []GatewayUrlsDifferInThePath
<1>1. UrlsInv => GatewayUrlsDifferInThePath
  <2>. SUFFICES ASSUME UrlsInv PROVE GatewayUrlsDifferInThePath
    OBVIOUS
  <2>1. DOMAIN igds = 1 .. Len(igds)
    BY DEF UrlsInv
  <2>2. \A i \in 1 .. Len(igds) : IsGateway(igds[i], rsp.url, services[i])
    BY DEF UrlsInv
  <2>3. \A i \in 1 .. Len(igds), b \in Bases :
           ControlPath(i, b) = PathOf(services[i], b) /\ b \in Nat \ {0}
    BY IgdUrlsAssumption DEF PathOf, ControlPath
  <2>4. \A q, r \in requests : q.to = r.to
    BY DEF UrlsInv
  <2>. QED  BY <2>1, <2>2, <2>3, <2>4 DEF GatewayUrlsDifferInThePath, IsGateway
<1>. QED  BY <1>1, UrlsAreGateways, PTL

(* What a reader of the datagram finds in it is what the library finds:    *)
(* whatever part of an answer has arrived, a field of the response is the  *)
(* one that was sent under its key, in any order, case and spacing, or it  *)
(* is missing, and nothing is missing from a whole one (ssdp.cpp:156-217). *)
THEOREM AnswersAreRead == Spec => []AnswersAreNotMisread
<1>1. UrlsInv => AnswersAreNotMisread
  <2>. SUFFICES ASSUME UrlsInv PROVE AnswersAreNotMisread
    OBVIOUS
  <2>1. IsAnswer(packet) /\ AsSent(rsp, packet)
    BY IgdUrlsAssumption DEF UrlsInv
  <2>2. PICK v : v = Datagram(packet) /\ IsCut(Chars, v, Datagram(packet))
    <3>1. Datagram(packet) \in Seq(Chars)
      BY <2>1, DatagramIsText
    <3>2. IsCut(Chars, Datagram(packet), Datagram(packet))
      BY <3>1 DEF IsCut
    <3>. QED  BY <3>2
  <2>3. ParseResponse(v) # <<>> /\ \A f \in Fields : ParseResponse(v)[1][f] = packet.sent[f]
    BY <2>1, <2>2, AnswersAre
  <2>. QED  BY <2>1, <2>2, <2>3 DEF AnswersAreNotMisread, AsSent
<1>. QED  BY <1>1, UrlsAreGateways, PTL

(* Where there is an endpoint, the LOCATION has arrived.                   *)
LEMMA LocationHasArrived ==
    ASSUME UrlsInv, Endpoint # <<>>
    PROVE  \E b \in Nat \ {0} : IsLike(rsp.url, ParseUrl(Printed(packet.location), b))
<1>1. IsAnswer(packet) /\ AsSent(rsp, packet) /\ IsFrom(rsp.url, rsp.location)
  BY IgdUrlsAssumption DEF UrlsInv
<1>2. HostAndPort(rsp.url) # <<>>
  <2>1. \A i \in 1 .. Len(<<>>) : <<>>[i] # ":"
    OBVIOUS
  <2>2. ConsumeEndpoint(<<>>) = <<>>
    BY <2>1, NoColonNoEndpoint
  <2>. QED  BY <2>2 DEF Endpoint
<1>3. rsp.location # <<>>
  BY <1>1, <1>2 DEF IsFrom
<1>4. rsp.location = <<Printed(packet.location)>>
  <2>1. rsp.location \in {<<>>, packet.sent.location}
    BY <1>1, KeysAre DEF AsSent
  <2>2. packet.sent.location \in {<<>>, <<Printed(packet.location)>>}
    BY <1>1 DEF IsAnswer
  <2>. QED  BY <1>3, <2>1, <2>2
<1>5. rsp.location[1] = Printed(packet.location)
  BY <1>4
<1>. QED  BY <1>1, <1>3, <1>5 DEF IsFrom

LEMMA PlainLocation ==
    ASSUME UrlsInv, Endpoint # <<>>, IsPlain(packet.location)
    PROVE  /\ rsp.url.buf = Printed(packet.location)
           /\ Texts(rsp.url) = packet.location
           /\ Starts(rsp.url)["path"] = Len(BeforePath(packet.location))
           /\ Lengths(rsp.url)["path"] = Len(packet.location["path"])
           /\ HostAndPort(rsp.url) = packet.location["host"] \o <<":">> \o packet.location["port"]
<1>1. PICK b \in Nat \ {0} : IsLike(rsp.url, ParseUrl(Printed(packet.location), b))
  BY LocationHasArrived
<1>2. packet.location \in [Parts -> Seq(Chars)] /\ Delims \subseteq Chars /\ b \in Nat
  BY IgdUrlsAssumption, LocationIsText, CharsHave, Zenon DEF UrlsInv, Delims
<1>3. PICK c, u : c = packet.location /\ u = ParseUrl(Printed(c), b)
  OBVIOUS
<1>4. /\ u.buf = Printed(c) /\ Texts(u) = c
      /\ Starts(u)["path"] = Len(BeforePath(c)) /\ Lengths(u)["path"] = Len(c["path"])
      /\ HostAndPort(u) = c["host"] \o <<":">> \o c["port"]
  BY <1>2, <1>3, PlainUrlsAreTakenApart
<1>5. IsLike(rsp.url, u)
  BY <1>1, <1>3
<1>. QED  BY <1>3, <1>4, <1>5, Zenon DEF IsLike

(* The endpoint of a plain LOCATION whose port is a number.                *)
LEMMA PlainEndpoint ==
    ASSUME UrlsInv, Endpoint # <<>>, IsPlain(packet.location),
           IsShort(Numeral(packet.location["port"]))
    PROVE  /\ Endpoint = <<<<packet.location["host"], Value(Numeral(packet.location["port"]))>>>>
           /\ NumericPort(rsp.url) = <<Value(Numeral(packet.location["port"]))>>
<1>1. PICK x, y, w : /\ x = packet.location["host"] /\ y = packet.location["port"]
                     /\ w = HostAndPort(rsp.url)
  OBVIOUS
<1>2. x \in Seq(Chars) /\ y \in Seq(Chars)
  <2>1. packet.location \in [Parts -> Seq(Chars)]
    BY IgdUrlsAssumption, LocationIsText DEF UrlsInv
  <2>. QED  BY <1>1, <2>1 DEF Parts
<1>3. HasNone(y, {":"})
  <2>1. HasNone(y, {":", "/", "@", "?", "#"})
    BY <1>1 DEF IsPlain
  <2>. QED  BY <2>1 DEF HasNone
<1>4. w = x \o <<":">> \o y
  BY <1>1, PlainLocation
<1>5. IsEndpointText(Chars, w, x, y)
  BY <1>2, <1>3, <1>4, CharsHave, Zenon DEF IsEndpointText
<1>6. ConsumeNumber(y, MaxPort) # <<>> /\ Endpoint = <<<<x, ConsumeNumber(y, MaxPort)[1]>>>>
  <2>1. ConsumeEndpoint(w) # <<>> /\ Endpoint = ConsumeEndpoint(w)
    BY <1>1 DEF Endpoint
  <2>. QED  BY <1>5, <2>1, EndpointIs
<1>7. ConsumeNumber(y, MaxPort) = <<Value(Numeral(y))>>
  BY <1>1, <1>2, <1>6, NumbersAreRead
<1>8. NumericPort(rsp.url) = ConsumeNumber(y, MaxPort)
  <2>1. TextOf(rsp.url, "port") = Texts(rsp.url)["port"]
    BY DEF Texts, Parts
  <2>2. Texts(rsp.url) = packet.location
    BY PlainLocation
  <2>. QED  BY <1>1, <2>1, <2>2 DEF NumericPort
<1>9. ConsumeNumber(y, MaxPort)[1] = Value(Numeral(y))
  BY <1>7
<1>. QED  BY <1>1, <1>6, <1>7, <1>8, <1>9

(* A control URL, with a host or without.                                  *)
LEMMA ControlPathIs ==
    ASSUME NEW c \in [Parts -> Seq(Chars)], IsPlain(c) \/ IsPlainPath(c), NEW b \in Nat \ {0}
    PROVE  PathOf(c, b) = c["path"]
<1>1. PICK u : u = ParseUrl(Printed(c), b)
  OBVIOUS
<1>2. Delims \subseteq Chars /\ Printed(c) \in Seq(Chars) /\ "path" \in Parts
  <2>1. Delims \subseteq Chars
    BY CharsHave, Zenon DEF Delims
  <2>. QED  BY <2>1, PrintedIsText DEF Delims, Parts
<1>3. Texts(u)["path"] = c["path"]
  <2>1. CASE IsPlain(c)
    <3>1. Texts(u) = c
      BY <1>1, <1>2, <2>1, PlainUrlsAreTakenApart
    <3>. QED  BY <3>1
  <2>2. CASE IsPlainPath(c)
    <3>1. TextOf(u, "path") = c["path"]
      BY <1>1, <1>2, <2>2, PlainPath
    <3>. QED  BY <1>2, <3>1 DEF Texts
  <2>. QED  BY <2>1, <2>2
<1>4. Texts(MovedTo(u, b)) = Texts(u)
  <2>1. IsUrl(u, Chars)
    BY <1>1, <1>2, ParsedUrls
  <2>. QED  BY <2>1, MovesKeepTexts
<1>5. PathOf(c, b) = Texts(MovedTo(u, b))["path"]
  BY <1>1, <1>2 DEF PathOf, Texts
<1>. QED  BY <1>3, <1>4, <1>5

(* Requests reach the device: the address and the port are those in the    *)
(* LOCATION, the path is the one in it or in the gateway's control URL, for*)
(* every plain URL and every port that is a number, wherever the buffers   *)
(* have been (url.cpp:9-58, ssdp.cpp:207-213, igd.cpp:359-369, 396-399).   *)
THEOREM RequestsAreSentToTheDevice == Spec => []RequestsGoToTheDevice
<1>1. UrlsInv => RequestsGoToTheDevice
  <2>. SUFFICES ASSUME UrlsInv PROVE RequestsGoToTheDevice
    OBVIOUS
  <2>0. PICK c : c = packet.location
    OBVIOUS
  <2>1. /\ c \in [Parts -> Seq(Chars)]
        /\ DOMAIN igds = 1 .. Len(igds) /\ Len(igds) \in Nat
    BY <2>0, IgdUrlsAssumption, LocationIsText DEF UrlsInv
  <2>2. \A i \in 1 .. Len(igds) : services[i] \in [Parts -> Seq(Chars)]
    <3>1. PICK T, U : T = Seq(STRING) /\ U = Seq(Chars) /\ T \subseteq U
      BY CharsHave, Zenon
    <3>2. services \in Seq([Parts -> T]) /\ Len(igds) <= Len(services)
      BY <3>1, IgdUrlsAssumption, EmptySeq DEF UrlsInv
    <3>3. \A i \in 1 .. Len(igds) : services[i] \in [Parts -> T]
      BY <2>1, <3>2
    <3>. QED  BY <3>1, <3>3
  <2>3. ASSUME NEW r \in requests
        PROVE  /\ IsPlain(c) /\ IsShort(Numeral(c["port"])) =>
                     /\ r.to = <<<<c["host"], Value(Numeral(c["port"]))>>>>
                     /\ NumericPort(rsp.url) = <<r.to[1][2]>>
               /\ IsPlain(c) /\ r.of = 0 => r.path = c["path"]
               /\ r.of # 0 /\ (IsPlain(services[r.of]) \/ IsPlainPath(services[r.of])) =>
                     r.path = services[r.of]["path"]
    <3>1. /\ Endpoint # <<>> /\ r.of \in 0 .. Len(igds) /\ r.to = Endpoint
          /\ AsksFor(r, rsp.url, services)
      BY DEF UrlsInv
    <3>2. ASSUME IsPlain(c), IsShort(Numeral(c["port"]))
          PROVE  /\ r.to = <<<<c["host"], Value(Numeral(c["port"]))>>>>
                 /\ NumericPort(rsp.url) = <<r.to[1][2]>>
      <4>1. PICK a, n : a = c["host"] /\ n = Value(Numeral(c["port"]))
        OBVIOUS
      <4>2. r.to = <<<<a, n>>>> /\ NumericPort(rsp.url) = <<n>>
        BY <2>0, <3>1, <3>2, <4>1, PlainEndpoint
      <4>. QED  BY <4>1, <4>2
    <3>3. ASSUME IsPlain(c), r.of = 0 PROVE r.path = c["path"]
      <4>1. r.path = TextOf(rsp.url, "path")
        BY <3>1, <3>3 DEF AsksFor
      <4>2. Texts(rsp.url) = c
        BY <2>0, <3>1, <3>3, PlainLocation
      <4>3. Texts(rsp.url)["path"] = TextOf(rsp.url, "path")
        BY DEF Texts, Parts
      <4>. QED  BY <4>1, <4>2, <4>3
    <3>4. ASSUME r.of # 0, IsPlain(services[r.of]) \/ IsPlainPath(services[r.of])
          PROVE  r.path = services[r.of]["path"]
      <4>1. PICK i \in 1 .. Len(igds) : i = r.of
        BY <2>1, <3>1, <3>4
      <4>2. 1 \in Nat \ {0}
        OBVIOUS
      <4>3. r.path = PathOf(services[i], 1)
        BY <3>1, <3>4, <4>1, <4>2 DEF AsksFor
      <4>4. PathOf(services[i], 1) = services[i]["path"]
        BY <2>2, <3>4, <4>1, <4>2, ControlPathIs
      <4>. QED  BY <4>1, <4>3, <4>4
    <3>. QED  BY <3>2, <3>3, <3>4
  <2>4. ASSUME NEW i \in DOMAIN igds, IsPlain(c)
        PROVE  Texts(rsp.url) = c /\ Printed(Texts(igds[i])) = igds[i].buf
    <3>1. i \in 1 .. Len(igds) /\ igds # <<>>
      BY <2>1, <2>4
    <3>2. Endpoint # <<>>
      BY <3>1 DEF UrlsInv
    <3>3. /\ rsp.url.buf = Printed(c) /\ Texts(rsp.url) = c
          /\ Starts(rsp.url)["path"] = Len(BeforePath(c))
          /\ Lengths(rsp.url)["path"] = Len(c["path"])
      BY <2>0, <2>4, <3>2, PlainLocation
    <3>4. 1 \in Nat \ {0} /\ services[i] \in [Parts -> Seq(Chars)]
      BY <2>2, <3>1
    <3>5. PICK path \in Seq(Chars) : path = PathOf(services[i], 1)
      BY <3>4, ControlPaths
    <3>6. /\ Texts(igds[i]) = [Texts(rsp.url) EXCEPT !["path"] = path]
          /\ igds[i].buf = WithPath(rsp.url, path)
      BY <3>1, <3>4, <3>5 DEF UrlsInv, IsGateway
    <3>7. WithPath(rsp.url, path) = Printed([c EXCEPT !["path"] = path])
      <4>1. PICK u : u = rsp.url
        OBVIOUS
      <4>2. Delims \subseteq Chars
        BY CharsHave, Zenon DEF Delims
      <4>3. /\ u.buf = Printed(c) /\ Starts(u)["path"] = Len(BeforePath(c))
            /\ Lengths(u)["path"] = Len(c["path"])
        BY <3>3, <4>1
      <4>4. WithPath(u, path) = Printed([c EXCEPT !["path"] = path])
        BY <2>1, <4>2, <4>3, PathIsPrinted
      <4>. QED  BY <4>1, <4>4
    <3>. QED  BY <3>3, <3>6, <3>7
  <2>. QED  BY <2>0, <2>3, <2>4, Zenon DEF RequestsGoToTheDevice
<1>. QED  BY <1>1, UrlsAreGateways, PTL
=============================================================================
