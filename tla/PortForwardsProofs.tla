------------------------- MODULE PortForwardsProofs -------------------------
(***************************************************************************)
(* Proofs about PortForwards, for any set of tasks and of endpoints: the   *)
(* pool never finds a forward again, every task connects through a tunnel  *)
(* that is alive, and it leads to the service that the task asked for.     *)
(***************************************************************************)
EXTENDS PortForwards, TLAPS, SequenceTheorems

(* The parts of a key. *)
Name == STRING \union {"-", "--", "_", "@", "->", ":"}

EndpointType == [user : Seq(Name), host : Seq(Name), service : Seq(Name), port : Name]

(* A concatenation of names: the facts of the library, for the one set needed. *)
LEMMA ConcatOfNames ==
  ASSUME NEW s \in Seq(Name), NEW t \in Seq(Name)
  PROVE  /\ s \o t \in Seq(Name)
         /\ Len(s) \in Nat /\ Len(t) \in Nat /\ Len(s \o t) = Len(s) + Len(t)
         /\ \A i \in 1 .. Len(s) : (s \o t)[i] = s[i]
         /\ \A i \in 1 .. Len(t) : (s \o t)[Len(s) + i] = t[i]
BY ConcatProperties, LenProperties

LEMMA EndpointsTyped == Endpoints \subseteq EndpointType
<1>1. Seq(STRING) \subseteq Seq(Name) /\ STRING \subseteq Name
  BY SeqMonotonic DEF Name
<1> QED
  BY <1>1, ConstantsAssumption DEF ConstantsAssumption, EndpointType

(* A path of three names, two marks between them and two words at the end: *)
(* how long it is, and what stands where.                                  *)
PathOf(s, a, x, b, y, c, z, w) ==
  LET u == Len(a)
      h == Len(b)
      v == Len(c)
  IN  /\ u \in Nat /\ h \in Nat /\ v \in Nat
      /\ Len(s) = u + h + v + 4
      /\ \A i \in 1 .. u : s[i] = a[i]
      /\ s[u + 1] = x
      /\ \A i \in 1 .. h : s[u + 1 + i] = b[i]
      /\ s[u + h + 2] = y
      /\ \A i \in 1 .. v : s[u + h + 2 + i] = c[i]
      /\ s[u + h + v + 3] = z
      /\ s[u + h + v + 4] = w

LEMMA PathParts ==
  ASSUME NEW a \in Seq(Name), NEW b \in Seq(Name), NEW c \in Seq(Name),
         NEW x \in Name, NEW y \in Name, NEW z \in Name, NEW w \in Name
  PROVE  PathOf(a \o <<x>> \o b \o <<y>> \o c \o <<z, w>>, a, x, b, y, c, z, w)
<1> DEFINE s1 == a \o <<x>>
           s2 == s1 \o b
           s3 == s2 \o <<y>>
           s4 == s3 \o c
           s5 == s4 \o <<z, w>>
           u == Len(a)
           h == Len(b)
           v == Len(c)
<1>0. u \in Nat /\ h \in Nat /\ v \in Nat
  BY LenProperties
<1> HIDE DEF u, h, v
<1>1. /\ s1 \in Seq(Name) /\ Len(s1) = u + 1
      /\ \A i \in 1 .. u : s1[i] = a[i]
      /\ s1[u + 1] = x
  BY DEF u
<1> HIDE DEF s1
<1>2. /\ s2 \in Seq(Name) /\ Len(s2) = u + 1 + h
      /\ \A i \in 1 .. u + 1 : s2[i] = s1[i]
      /\ \A i \in 1 .. h : s2[u + 1 + i] = b[i]
  <2>1. h = Len(b) /\ u + 1 = Len(s1)
    BY <1>1 DEF h
  <2>2. s2 \in Seq(Name) /\ Len(s2) = u + 1 + h
    BY <1>0, <1>1, <2>1
  <2>3. \A i \in 1 .. u + 1 : s2[i] = s1[i]
    BY <1>0, <1>1, <2>1
  <2>4. \A i \in 1 .. h : s2[u + 1 + i] = b[i]
    BY <1>0, <1>1, <2>1
  <2> QED
    BY <2>2, <2>3, <2>4
<1> HIDE DEF s2
<1>3. /\ s3 \in Seq(Name) /\ Len(s3) = u + h + 2
      /\ \A i \in 1 .. u + 1 + h : s3[i] = s2[i]
      /\ s3[u + h + 2] = y
  BY <1>0, <1>2
<1> HIDE DEF s3
<1>4. /\ s4 \in Seq(Name) /\ Len(s4) = u + h + 2 + v
      /\ \A i \in 1 .. u + h + 2 : s4[i] = s3[i]
      /\ \A i \in 1 .. v : s4[u + h + 2 + i] = c[i]
  <2>1. v = Len(c) /\ u + h + 2 = Len(s3)
    BY <1>3 DEF v
  <2>2. s4 \in Seq(Name) /\ Len(s4) = u + h + 2 + v
    <3>1. s3 \in Seq(Name)
      BY <1>3
    <3>2. s4 \in Seq(Name) /\ Len(s4) = Len(s3) + Len(c)
      BY <3>1
    <3> QED
      BY <1>0, <1>3, <3>2, <2>1
  <2>3. \A i \in 1 .. u + h + 2 : s4[i] = s3[i]
    BY <1>0, <1>3, <2>1
  <2>4. \A i \in 1 .. v : s4[u + h + 2 + i] = c[i]
    BY <1>0, <1>3, <2>1
  <2> QED
    BY <2>2, <2>3, <2>4
<1> HIDE DEF s4
<1>5. /\ s5 \in Seq(Name) /\ Len(s5) = u + h + v + 4
      /\ \A i \in 1 .. u + h + 2 + v : s5[i] = s4[i]
      /\ s5[u + h + v + 3] = z
      /\ s5[u + h + v + 4] = w
  BY <1>0, <1>4
<1> HIDE DEF s5
<1>6. /\ \A i \in 1 .. u : s5[i] = a[i]
      /\ s5[u + 1] = x
      /\ \A i \in 1 .. h : s5[u + 1 + i] = b[i]
      /\ s5[u + h + 2] = y
      /\ \A i \in 1 .. v : s5[u + h + 2 + i] = c[i]
  <2>1. \A i \in 1 .. u + h + 2 : s5[i] = s3[i]
    BY <1>0, <1>4, <1>5, SMTT(30)
  <2>2. \A i \in 1 .. u + 1 + h : s5[i] = s2[i]
    BY <1>0, <1>3, <2>1
  <2>3. \A i \in 1 .. u + 1 : s5[i] = s1[i]
    BY <1>0, <1>2, <2>2
  <2>4. (\A i \in 1 .. u : s5[i] = a[i]) /\ s5[u + 1] = x
    BY <1>0, <1>1, <2>3
  <2>5. \A i \in 1 .. h : s5[u + 1 + i] = b[i]
    BY <1>0, <1>2, <2>2
  <2>6. s5[u + h + 2] = y
    <3>1. u + h + 2 \in 1 .. u + h + 2
      BY <1>0
    <3> QED
      BY <3>1, <1>3, <2>1
  <2>7. \A i \in 1 .. v : s5[u + h + 2 + i] = c[i]
    BY <1>0, <1>4, <1>5
  <2> QED
    BY <2>4, <2>5, <2>6, <2>7
<1> QED
  BY <1>0, <1>5, <1>6 DEF PathOf, s5, s4, s3, s2, s1, u, h, v

LEMMA EndpointParts ==
  ASSUME NEW e \in EndpointType
  PROVE  /\ e.user \in Seq(Name) /\ e.host \in Seq(Name)
         /\ e.service \in Seq(Name) /\ e.port \in Name
BY DEF EndpointType

LEMMA SocketParts ==
  ASSUME NEW e \in EndpointType
  PROVE  PathOf(Socket(e), e.user, "-", e.host, "--", e.service, "_", e.port)
<1>1. "-" \in Name /\ "--" \in Name /\ "_" \in Name
  BY DEF Name
<1> QED
  BY <1>1, EndpointParts, PathParts DEF Socket

LEMMA IdParts ==
  ASSUME NEW e \in EndpointType
  PROVE  PathOf(Id(e), e.user, "@", e.host, "->", e.service, ":", e.port)
<1>1. "@" \in Name /\ "->" \in Name /\ ":" \in Name
  BY DEF Name
<1> QED
  BY <1>1, EndpointParts, PathParts DEF Id

LEMMA PathEnd ==
  ASSUME NEW s, NEW a, NEW x, NEW b, NEW y, NEW c, NEW z, NEW w,
         PathOf(s, a, x, b, y, c, z, w)
  PROVE  s[Len(s) - 1] = z
<1>1. PICK u \in Nat, h \in Nat, v \in Nat : /\ Len(s) = u + h + v + 4
                                             /\ s[u + h + v + 3] = z
  BY DEF PathOf
<1>2. Len(s) - 1 = u + h + v + 3
  BY <1>1
<1> QED
  BY <1>1, <1>2

(* The last part but one tells a key of the lookup from a key of the insert. *)
LEMMA LookUpMisses ==
  ASSUME NEW e \in EndpointType, NEW f \in EndpointType
  PROVE  Id(e) # Socket(f)
<1>1. Socket(f)[Len(Socket(f)) - 1] = "_"
  BY SocketParts, PathEnd, Zenon
<1>2. Id(e)[Len(Id(e)) - 1] = ":"
  BY IdParts, PathEnd, Zenon
<1> QED
  BY <1>1, <1>2

(* What Separable says of each name. *)
LEMMA NamesOfSeparable ==
  ASSUME NEW e, Separable(e),
         e.user \in Seq(Name), e.host \in Seq(Name), e.service \in Seq(Name)
  PROVE  /\ \A i \in 1 .. Len(e.user) : e.user[i] # "-" /\ e.user[i] # "--"
         /\ \A i \in 1 .. Len(e.host) : e.host[i] # "-" /\ e.host[i] # "--"
         /\ \A i \in 1 .. Len(e.service) : e.service[i] # "--"
<1> DEFINE uh == e.user \o e.host
           uhv == uh \o e.service
<1>1. /\ \A i \in 1 .. Len(uh) : uh[i] # "-"
      /\ \A i \in 1 .. Len(uhv) : uhv[i] # "--"
  BY DEF Separable, Contains
<1>2. /\ uh \in Seq(Name)
      /\ Len(uh) = Len(e.user) + Len(e.host)
      /\ Len(e.user) \in Nat /\ Len(e.host) \in Nat
      /\ \A i \in 1 .. Len(e.user) : uh[i] = e.user[i]
      /\ \A i \in 1 .. Len(e.host) : uh[Len(e.user) + i] = e.host[i]
  BY ConcatOfNames
<1> HIDE DEF uh
<1>3. /\ Len(uhv) = Len(uh) + Len(e.service)
      /\ Len(uh) \in Nat /\ Len(e.service) \in Nat
      /\ \A i \in 1 .. Len(uh) : uhv[i] = uh[i]
      /\ \A i \in 1 .. Len(e.service) : uhv[Len(uh) + i] = e.service[i]
  BY <1>2, ConcatOfNames
<1> HIDE DEF uhv
<1>0. /\ \A i \in 1 .. Len(e.user) : i \in 1 .. Len(uh)
      /\ \A i \in 1 .. Len(e.host) : Len(e.user) + i \in 1 .. Len(uh)
  <2> DEFINE m == Len(e.user)
             n == Len(e.host)
             l == Len(uh)
  <2>1. m \in Nat /\ n \in Nat /\ l = m + n
    BY <1>2
  <2> HIDE DEF m, n, l
  <2>2. (\A i \in 1 .. m : i \in 1 .. l) /\ (\A i \in 1 .. n : m + i \in 1 .. l)
    BY <2>1
  <2> QED
    BY <2>2 DEF m, n, l
<1>4. /\ \A i \in 1 .. Len(uh) : uh[i] # "--"
      /\ \A i \in 1 .. Len(e.service) : e.service[i] # "--"
  <2>1. ASSUME NEW i \in 1 .. Len(uh) PROVE uh[i] # "--"
    <3>1. i \in 1 .. Len(uhv)
      BY <1>3
    <3> QED
      BY <3>1, <1>1, <1>3
  <2>2. ASSUME NEW i \in 1 .. Len(e.service) PROVE e.service[i] # "--"
    <3>1. Len(uh) + i \in 1 .. Len(uhv)
      BY <1>3
    <3> QED
      BY <3>1, <1>1, <1>3
  <2> QED
    BY <2>1, <2>2
<1>5. /\ \A i \in 1 .. Len(e.user) : e.user[i] # "-" /\ e.user[i] # "--"
      /\ \A i \in 1 .. Len(e.host) : e.host[i] # "-" /\ e.host[i] # "--"
  <2>1. ASSUME NEW i \in 1 .. Len(e.user) PROVE e.user[i] # "-" /\ e.user[i] # "--"
    <3>1. i \in 1 .. Len(uh)
      BY <1>0
    <3> QED
      BY <3>1, <1>1, <1>2, <1>4
  <2>2. ASSUME NEW i \in 1 .. Len(e.host) PROVE e.host[i] # "-" /\ e.host[i] # "--"
    <3>1. Len(e.user) + i \in 1 .. Len(uh)
      BY <1>0
    <3> QED
      BY <3>1, <1>1, <1>2, <1>4
  <2> QED
    BY <2>1, <2>2
<1> QED
  BY <1>4, <1>5

(* Two urls share a socket only if a name of theirs has a dash. *)
LEMMA SeparableIsAlone ==
  ASSUME NEW e \in EndpointType, NEW f \in EndpointType,
         Separable(e), Socket(f) = Socket(e)
  PROVE  f = e
<1> DEFINE s == Socket(e)
           u == Len(e.user)
           h == Len(e.host)
           v == Len(e.service)
           fu == Len(f.user)
           fh == Len(f.host)
           fv == Len(f.service)
<1>1. /\ u \in Nat /\ h \in Nat /\ v \in Nat
      /\ Len(s) = u + h + v + 4
      /\ \A i \in 1 .. u : s[i] = e.user[i]
      /\ \A i \in 1 .. h : s[u + 1 + i] = e.host[i]
      /\ \A i \in 1 .. v : s[u + h + 2 + i] = e.service[i]
      /\ s[u + 1] = "-" /\ s[u + h + 2] = "--"
      /\ s[u + h + v + 3] = "_" /\ s[u + h + v + 4] = e.port
  BY SocketParts, Zenon DEF PathOf
<1>2. /\ fu \in Nat /\ fh \in Nat /\ fv \in Nat
      /\ Len(s) = fu + fh + fv + 4
      /\ \A i \in 1 .. fu : s[i] = f.user[i]
      /\ \A i \in 1 .. fh : s[fu + 1 + i] = f.host[i]
      /\ \A i \in 1 .. fv : s[fu + fh + 2 + i] = f.service[i]
      /\ s[fu + 1] = "-" /\ s[fu + fh + 2] = "--"
      /\ s[fu + fh + fv + 3] = "_" /\ s[fu + fh + fv + 4] = f.port
  <2>1. PathOf(s, f.user, "-", f.host, "--", f.service, "_", f.port)
    BY SocketParts, Zenon
  <2> QED
    BY <2>1, Zenon DEF PathOf
<1>3. /\ \A i \in 1 .. u : e.user[i] # "-" /\ e.user[i] # "--"
      /\ \A i \in 1 .. h : e.host[i] # "-" /\ e.host[i] # "--"
      /\ \A i \in 1 .. v : e.service[i] # "--"
  BY EndpointParts, NamesOfSeparable
<1>0. /\ u \in Nat /\ h \in Nat /\ v \in Nat
      /\ fu \in Nat /\ fh \in Nat /\ fv \in Nat
      /\ u + h + v + 4 = fu + fh + fv + 4
  BY <1>1, <1>2
<1> HIDE DEF s, u, h, v, fu, fh, fv
(* Each of the two marks is the first of its kind. *)
<1>4. \A i \in 1 .. u + h + v + 3 : s[i] = "--" => i = u + h + 2
  <2> SUFFICES ASSUME NEW i \in 1 .. u + h + v + 3, i # u + h + 2
               PROVE  s[i] # "--"
    OBVIOUS
  <2>1. CASE i \in 1 .. u
    BY <2>1, <1>1, <1>3
  <2>2. CASE i = u + 1
    BY <2>2, <1>1
  <2>3. ASSUME NEW j \in 1 .. h, i = u + 1 + j PROVE s[i] # "--"
    BY <2>3, <1>1, <1>3
  <2>4. ASSUME NEW j \in 1 .. v, i = u + h + 2 + j PROVE s[i] # "--"
    BY <2>4, <1>1, <1>3
  <2>5. CASE i = u + h + v + 3
    BY <2>5, <1>1
  <2>6. \/ i \in 1 .. u
        \/ i = u + 1
        \/ i - (u + 1) \in 1 .. h /\ i = u + 1 + (i - (u + 1))
        \/ i - (u + h + 2) \in 1 .. v /\ i = u + h + 2 + (i - (u + h + 2))
        \/ i = u + h + v + 3
    BY <1>0
  <2> QED
    BY <2>1, <2>2, <2>3, <2>4, <2>5, <2>6
<1>5. \A i \in 1 .. u + h + 1 : s[i] = "-" => i = u + 1
  <2> SUFFICES ASSUME NEW i \in 1 .. u + h + 1, i # u + 1
               PROVE  s[i] # "-"
    OBVIOUS
  <2>1. CASE i \in 1 .. u
    BY <2>1, <1>1, <1>3
  <2>2. ASSUME NEW j \in 1 .. h, i = u + 1 + j PROVE s[i] # "-"
    BY <2>2, <1>1, <1>3
  <2>3. \/ i \in 1 .. u
        \/ i - (u + 1) \in 1 .. h /\ i = u + 1 + (i - (u + 1))
    BY <1>0
  <2> QED
    BY <2>1, <2>2, <2>3
<1>6. fu = u /\ fh = h /\ fv = v
  <2>1. fu + fh + 2 \in 1 .. u + h + v + 3
    BY <1>0
  <2>2. fu + fh + 2 = u + h + 2
    BY <2>1, <1>2, <1>4
  <2>3. fu + 1 \in 1 .. u + h + 1
    BY <2>2, <1>0
  <2>4. fu + 1 = u + 1
    <3>1. s[fu + 1] = "-"
      BY <1>2
    <3> QED
      BY <3>1, <2>3, <1>5
  <2> QED
    BY <2>2, <2>4, <1>0
<1>7. /\ \A i \in 1 .. u : f.user[i] = e.user[i]
      /\ \A i \in 1 .. h : f.host[i] = e.host[i]
      /\ \A i \in 1 .. v : f.service[i] = e.service[i]
      /\ f.port = e.port
  <2>1. \A i \in 1 .. u : f.user[i] = e.user[i]
    BY <1>1, <1>2, <1>6
  <2>2. \A i \in 1 .. h : f.host[i] = e.host[i]
    BY <1>1, <1>2, <1>6
  <2>3. \A i \in 1 .. v : f.service[i] = e.service[i]
    BY <1>1, <1>2, <1>6
  <2>4. f.port = e.port
    BY <1>1, <1>2, <1>6
  <2> QED
    BY <2>1, <2>2, <2>3, <2>4
<1>8. f.user = e.user /\ f.host = e.host /\ f.service = e.service
  BY <1>6, <1>7, EndpointParts, SeqEqual DEF u, h, v, fu, fh, fv
<1> QED
  BY <1>7, <1>8 DEF EndpointType

-----------------------------------------------------------------------------
(* The mutex of the pool: who asks waits behind the others, once.          *)
LEMMA AppendToQueue ==
  ASSUME NEW q \in Seq(Tasks), NEW t \in Tasks, IsInjective(q), t \notin ToSet(q)
  PROVE  /\ Append(q, t) \in Seq(Tasks)
         /\ IsInjective(Append(q, t))
         /\ ToSet(Append(q, t)) = ToSet(q) \union {t}
         /\ Append(q, t) # <<>>
         /\ q # <<>> => Head(Append(q, t)) = Head(q)
<1> DEFINE r == Append(q, t)
           n == Len(q)
<1>1. /\ n \in Nat /\ DOMAIN q = 1 .. n
      /\ r \in Seq(Tasks) /\ DOMAIN r = 1 .. n + 1
      /\ \A i \in 1 .. n : r[i] = q[i]
      /\ r[n + 1] = t
      /\ r # <<>>
      /\ q # <<>> => Head(r) = Head(q)
  BY SMTT(30)
<1>2. \A i \in 1 .. n : q[i] # t
  BY <1>1 DEF ToSet
<1> HIDE DEF r, n
<1>3. IsInjective(r)
  BY <1>1, <1>2, SMTT(30) DEF IsInjective
<1>4. ToSet(r) = ToSet(q) \union {t}
  <2>1. ASSUME NEW i \in 1 .. n + 1 PROVE r[i] \in ToSet(q) \union {t}
    BY <1>1 DEF ToSet
  <2>2. ASSUME NEW i \in 1 .. n PROVE q[i] \in ToSet(r)
    BY <1>1 DEF ToSet
  <2>3. t \in ToSet(r)
    BY <1>1 DEF ToSet
  <2> QED
    BY <2>1, <2>2, <2>3, <1>1 DEF ToSet
<1> QED
  BY <1>1, <1>3, <1>4 DEF r

LEMMA TailOfQueue ==
  ASSUME NEW q \in Seq(Tasks), q # <<>>, IsInjective(q)
  PROVE  /\ Tail(q) \in Seq(Tasks)
         /\ IsInjective(Tail(q))
         /\ ToSet(Tail(q)) = ToSet(q) \ {Head(q)}
<1> DEFINE r == Tail(q)
           n == Len(q)
<1>1. /\ n \in Nat /\ 1 <= n /\ DOMAIN q = 1 .. n
      /\ r \in Seq(Tasks) /\ DOMAIN r = 1 .. n - 1
      /\ \A i \in 1 .. n - 1 : r[i] = q[i + 1]
      /\ Head(q) = q[1]
  BY SMTT(30)
<1> HIDE DEF r, n
<1>2. \A i \in 1 .. n - 1 : i + 1 \in 1 .. n /\ i + 1 # 1
  BY <1>1
<1>3. IsInjective(r)
  <2> SUFFICES ASSUME NEW i \in 1 .. n - 1, NEW j \in 1 .. n - 1, r[i] = r[j]
               PROVE  i = j
    BY <1>1 DEF IsInjective
  <2>1. i + 1 = j + 1
    <3>1. i + 1 \in DOMAIN q /\ j + 1 \in DOMAIN q
      BY <1>1, <1>2
    <3>2. q[i + 1] = q[j + 1]
      BY <1>1
    <3> QED
      BY <3>1, <3>2 DEF IsInjective
  <2> QED
    BY <2>1
<1>4. ToSet(r) = ToSet(q) \ {q[1]}
  <2>1. ASSUME NEW i \in 1 .. n - 1 PROVE r[i] \in ToSet(q) \ {q[1]}
    <3>1. q[i + 1] # q[1]
      BY <1>1, <1>2 DEF IsInjective
    <3> QED
      BY <3>1, <1>1, <1>2 DEF ToSet
  <2>2. ASSUME NEW i \in 1 .. n, q[i] # q[1] PROVE q[i] \in ToSet(r)
    <3>1. i - 1 \in 1 .. n - 1 /\ (i - 1) + 1 = i
      BY <1>1, <2>2
    <3> QED
      BY <3>1, <1>1 DEF ToSet
  <2> QED
    <3>1. ToSet(r) = {r[i] : i \in 1 .. n - 1} /\ ToSet(q) = {q[i] : i \in 1 .. n}
      BY <1>1 DEF ToSet
    <3> QED
      BY <3>1, <2>1, <2>2
<1> QED
  BY <1>1, <1>3, <1>4 DEF r

LEMMA InitIInv == Init => IInv
<1> SUFFICES ASSUME Init PROVE IInv
  OBVIOUS
<1>1. TypeOK
  BY ConstantsAssumption
     DEF ConstantsAssumption, Init, TypeOK, Over, Waits, IsInjective, ToSet
<1> QED
  BY <1>1 DEF Init, IInv, StoredUnderSocket, StartsAlone, TargetSharesSocket

(* No endpoint is found, so every lookup ends in the start of a forward. *)
LEMMA LookUpStarts ==
  ASSUME IInv, NEW t \in Tasks, LookUp(t)
  PROVE  Goto(t, "start") /\ UNCHANGED queue
<1>1. ASSUME NEW k \in DOMAIN forwards PROVE Id(endpoint[t]) # k
  <2>1. forwards[k].endpoint \in EndpointType /\ endpoint[t] \in EndpointType
    BY <1>1, EndpointsTyped DEF IInv, TypeOK
  <2>2. k = Socket(forwards[k].endpoint)
    BY <1>1 DEF IInv, StoredUnderSocket
  <2> QED
    BY <2>1, <2>2, LookUpMisses
<1> QED
  BY <1>1 DEF LookUp

(***************************************************************************)
(* What a step does with the mutex: it asks for it, gives it back or       *)
(* leaves it alone, and whoever starts a forward afterwards has it.        *)
(***************************************************************************)
QueueOK == /\ queue \in Seq(Tasks)
           /\ IsInjective(queue) /\ ToSet(queue) = {t \in Tasks : Waits(t)}
           /\ StartsAlone

LEMMA Asks ==
  ASSUME IInv, NEW t \in Tasks, pc[t] = "session",
         Goto(t, "lock"), queue' = Append(queue, t)
  PROVE  QueueOK'
<1>1. t \notin ToSet(queue)
  BY DEF IInv, TypeOK, Waits
<1>2. /\ queue' \in Seq(Tasks) /\ IsInjective(queue')
      /\ ToSet(queue') = ToSet(queue) \union {t}
      /\ queue' # <<>>
      /\ queue # <<>> => Head(queue') = Head(queue)
  BY <1>1, AppendToQueue DEF IInv, TypeOK
<1>3. ToSet(queue') = {s \in Tasks : Waits(s)'}
  BY <1>2 DEF IInv, TypeOK, Waits, Goto
<1>4. StartsAlone'
  BY <1>2 DEF IInv, TypeOK, StartsAlone, Holds, Goto
<1> QED
  BY <1>2, <1>3, <1>4 DEF QueueOK

LEMMA GivesBack ==
  ASSUME IInv, NEW t \in Tasks, pc[t] = "start",
         NEW label \in {"connect", "panicked"}, Goto(t, label), Unlock
  PROVE  QueueOK'
<1>1. queue # <<>> /\ Head(queue) = t
  BY DEF IInv, StartsAlone, Holds
<1>2. /\ queue' \in Seq(Tasks) /\ IsInjective(queue')
      /\ ToSet(queue') = ToSet(queue) \ {t}
  BY <1>1, TailOfQueue DEF IInv, TypeOK, Unlock
<1>3. ToSet(queue') = {s \in Tasks : Waits(s)'}
  BY <1>2 DEF IInv, TypeOK, Waits, Goto
<1>4. \A s \in Tasks : pc'[s] # "start"
  BY <1>1 DEF IInv, TypeOK, StartsAlone, Holds, Goto
<1> QED
  BY <1>2, <1>3, <1>4 DEF QueueOK, StartsAlone

LEMMA LeavesAlone ==
  ASSUME IInv, UNCHANGED queue,
         \A s \in Tasks : pc'[s] = pc[s] \/ {pc[s], pc'[s]} \cap {"lock", "start"} = {}
  PROVE  QueueOK'
BY DEF IInv, TypeOK, QueueOK, StartsAlone, Holds, Waits

(* A step that leaves the tunnels alone keeps the others' part of what is *)
(* said of them: of one task alone there is something to show.            *)
LEMMA TunnelsKept ==
  ASSUME IInv, UNCHANGED <<endpoint, forwards>>,
         \A s \in Tasks :
           \/ pc'[s] = pc[s] /\ target'[s] = target[s]
           \/ pc'[s] \notin {"connect", "connected"}
           \/ pc'[s] = "connected" /\ Socket(target'[s]) = Socket(endpoint[s])
  PROVE  StoredUnderSocket' /\ TargetSharesSocket'
<1>1. StoredUnderSocket'
  BY DEF IInv, StoredUnderSocket
<1>2. TargetSharesSocket'
  BY DEF IInv, TypeOK, TargetSharesSocket
<1> QED
  BY <1>1, <1>2

LEMMA InvariantStep == IInv /\ [Next]_vars => IInv'
<1> SUFFICES ASSUME IInv, [Next]_vars PROVE IInv'
  OBVIOUS
<1> USE DEF Goto, Over
<1>0. CASE UNCHANGED vars
  BY <1>0 DEF vars, IInv, TypeOK, StoredUnderSocket, StartsAlone, TargetSharesSocket,
              Holds, Waits
<1>1. ASSUME NEW t \in Tasks, CreateChannel(t) PROVE IInv'
  <2>1. QueueOK'
    <3>1. \A s \in Tasks : pc'[s] = pc[s] \/ {pc[s], pc'[s]} \cap {"lock", "start"} = {}
      BY <1>1 DEF CreateChannel, IInv, TypeOK, Waits
    <3> QED
      BY <1>1, <3>1, LeavesAlone DEF CreateChannel
  <2>3. TypeOK'
    <3>1. connectNo' \in [Tasks -> 0 .. LastConnectAttempt + 1]
      BY <1>1, ConstantsAssumption DEF ConstantsAssumption, CreateChannel, IInv, TypeOK
    <3>2. target' \in [Tasks -> Endpoints]
      BY <1>1 DEF CreateChannel, IInv, TypeOK
    <3> QED
      BY <1>1, <2>1, <3>1, <3>2 DEF CreateChannel, IInv, TypeOK, QueueOK
  <2>2. StoredUnderSocket' /\ TargetSharesSocket'
    BY <1>1, TunnelsKept DEF CreateChannel, IInv, TypeOK
  <2> QED
    BY <2>1, <2>2, <2>3 DEF IInv, QueueOK
<1>2. ASSUME NEW t \in Tasks, SessionReady(t) PROVE IInv'
  <2>1. QueueOK'
    BY <1>2, Asks DEF SessionReady
  <2>2. TypeOK'
    BY <1>2, <2>1 DEF SessionReady, QueueOK, IInv, TypeOK
  <2>3. StoredUnderSocket' /\ TargetSharesSocket'
    BY <1>2, TunnelsKept DEF SessionReady, IInv, TypeOK
  <2> QED
    BY <2>1, <2>2, <2>3 DEF IInv, QueueOK
<1>3. ASSUME NEW t \in Tasks, LookUp(t) PROVE IInv'
  <2>0. Goto(t, "start") /\ UNCHANGED queue
    BY <1>3, LookUpStarts
  <2>1. queue \in Seq(Tasks) /\ IsInjective(queue)
    BY DEF IInv, TypeOK
  <2>2. ToSet(queue) = {s \in Tasks : Waits(s)'}
    BY <1>3, <2>0 DEF LookUp, Waits, IInv, TypeOK
  <2>3. StartsAlone'
    BY <1>3, <2>0 DEF LookUp, StartsAlone, Holds, IInv, TypeOK
  <2>4. TypeOK'
    BY <1>3, <2>0, <2>1, <2>2 DEF LookUp, IInv, TypeOK
  <2>5. StoredUnderSocket' /\ TargetSharesSocket'
    BY <1>3, <2>0, TunnelsKept DEF LookUp, IInv, TypeOK
  <2> QED
    BY <2>3, <2>4, <2>5 DEF IInv
<1>4. ASSUME NEW t \in Tasks, ForwardStarted(t) PROVE IInv'
  <2> DEFINE k == Socket(endpoint[t])
  <2>0. endpoint[t] \in Endpoints /\ k \in Keys
    BY DEF IInv, TypeOK, Keys
  <2> HIDE DEF k
  <2>1. QueueOK'
    BY <1>4, GivesBack DEF ForwardStarted
  <2>2. /\ DOMAIN forwards' = DOMAIN forwards \union {k}
        /\ forwards'[k] = [endpoint |-> endpoint[t], alive |-> TRUE]
        /\ \A j \in DOMAIN forwards \ {k} : forwards'[j] = forwards[j]
        /\ forwards' \in [DOMAIN forwards' -> [endpoint : Endpoints, alive : BOOLEAN]]
    BY <1>4, <2>0 DEF k, ForwardStarted, IInv, TypeOK
  <2>3. TypeOK'
    BY <1>4, <2>0, <2>1, <2>2 DEF ForwardStarted, QueueOK, IInv, TypeOK
  <2>4. StoredUnderSocket'
    BY <1>4, <2>2 DEF k, ForwardStarted, IInv, StoredUnderSocket
  <2>5. TargetSharesSocket'
    BY <1>4, <2>2 DEF k, ForwardStarted, IInv, TypeOK, TargetSharesSocket
  <2> QED
    BY <2>1, <2>3, <2>4, <2>5 DEF IInv, QueueOK
<1>5. ASSUME NEW t \in Tasks, ForwardPanics(t) PROVE IInv'
  <2>1. QueueOK'
    BY <1>5, GivesBack DEF ForwardPanics
  <2>2. TypeOK'
    BY <1>5, <2>1 DEF ForwardPanics, QueueOK, IInv, TypeOK
  <2>3. StoredUnderSocket' /\ TargetSharesSocket'
    BY <1>5, TunnelsKept DEF ForwardPanics, IInv, TypeOK
  <2> QED
    BY <2>1, <2>2, <2>3 DEF IInv, QueueOK
<1>6. ASSUME NEW t \in Tasks, Connect(t) PROVE IInv'
  <2> DEFINE k == Socket(endpoint[t])
  <2>0. /\ k \in DOMAIN forwards
        /\ forwards[k].endpoint \in Endpoints
        /\ Socket(forwards[k].endpoint) = k
    BY <1>6 DEF Connect, IInv, TypeOK, TargetSharesSocket, StoredUnderSocket
  <2>1. QueueOK'
    <3>1. \A s \in Tasks : pc'[s] = pc[s] \/ {pc[s], pc'[s]} \cap {"lock", "start"} = {}
      BY <1>6 DEF Connect, IInv, TypeOK, Waits
    <3> QED
      BY <1>6, <3>1, LeavesAlone DEF Connect
  <2>2. TypeOK'
    BY <1>6, <2>0, <2>1 DEF Connect, QueueOK, IInv, TypeOK
  <2>3. StoredUnderSocket' /\ TargetSharesSocket'
    BY <1>6, <2>0, TunnelsKept DEF Connect, IInv, TypeOK
  <2> QED
    BY <2>1, <2>2, <2>3 DEF IInv, QueueOK
<1>7. ASSUME NEW t \in Tasks, ConnectFails(t) PROVE IInv'
  <2>1. QueueOK'
    <3>1. \A s \in Tasks : pc'[s] = pc[s] \/ {pc[s], pc'[s]} \cap {"lock", "start"} = {}
      BY <1>7 DEF ConnectFails, IInv, TypeOK, Waits
    <3> QED
      BY <1>7, <3>1, LeavesAlone DEF ConnectFails
  <2>2. connectNo' \in [Tasks -> 0 .. LastConnectAttempt + 1]
    <3>1. /\ LastConnectAttempt \in Nat
          /\ connectNo \in [Tasks -> 0 .. LastConnectAttempt + 1]
      BY ConstantsAssumption DEF ConstantsAssumption, IInv, TypeOK
    <3>2. CASE connectNo[t] > LastConnectAttempt
      BY <1>7, <3>1, <3>2 DEF ConnectFails
    <3>3. CASE connectNo[t] <= LastConnectAttempt
      <4>1. connectNo[t] + 1 \in 0 .. LastConnectAttempt + 1
        BY <3>1, <3>3
      <4> QED
        BY <1>7, <3>1, <3>3, <4>1 DEF ConnectFails
    <3> QED
      BY <3>1, <3>2, <3>3
  <2>3. TypeOK'
    BY <1>7, <2>1, <2>2 DEF ConnectFails, QueueOK, IInv, TypeOK
  <2>4. StoredUnderSocket' /\ TargetSharesSocket'
    BY <1>7, TunnelsKept DEF ConnectFails, IInv, TypeOK
  <2> QED
    BY <2>1, <2>3, <2>4 DEF IInv, QueueOK
<1>8. ASSUME NEW k \in DOMAIN forwards, TunnelDies(k) PROVE IInv'
  <2>1. QueueOK'
    <3>1. \A s \in Tasks : pc'[s] = pc[s] \/ {pc[s], pc'[s]} \cap {"lock", "start"} = {}
      BY <1>8 DEF TunnelDies
    <3> QED
      BY <1>8, <3>1, LeavesAlone DEF TunnelDies
  <2>2. /\ DOMAIN forwards' = DOMAIN forwards
        /\ \A j \in DOMAIN forwards : forwards'[j].endpoint = forwards[j].endpoint
        /\ forwards' \in [DOMAIN forwards -> [endpoint : Endpoints, alive : BOOLEAN]]
    BY <1>8 DEF TunnelDies, IInv, TypeOK
  <2>3. TypeOK'
    BY <1>8, <2>1, <2>2 DEF TunnelDies, QueueOK, IInv, TypeOK
  <2>4. StoredUnderSocket' /\ TargetSharesSocket'
    BY <1>8, <2>2 DEF TunnelDies, IInv, StoredUnderSocket, TargetSharesSocket
  <2> QED
    BY <2>1, <2>3, <2>4 DEF IInv, QueueOK
<1> QED
  BY <1>0, <1>1, <1>2, <1>3, <1>4, <1>5, <1>6, <1>7, <1>8
     DEF Next, SessionStep, ConnectStep

(***************************************************************************)
(* The inductive invariant: the pool's mutex is held by whoever starts a   *)
(* forward, what is stored under a socket listens on it, and a task that   *)
(* connects finds something there.                                         *)
(***************************************************************************)
THEOREM PoolInvariant == Spec => []IInv
<1> QED
  BY InitIInv, InvariantStep, PTL DEF Spec

(* Types, and nobody waits for the mutex of the pool twice or for nothing. *)
THEOREM PoolTypes == Spec => []TypeOK
<1>1. IInv => TypeOK
  BY DEF IInv
<1> QED
  BY <1>1, PoolInvariant, PTL

(***************************************************************************)
(* Every task begins to connect with a tunnel that is alive: it has been   *)
(* started for it, since the pool never finds one that was there before.   *)
(***************************************************************************)
THEOREM LiveTunnels == Spec => ConnectsThroughLiveTunnel
<1>1. ASSUME IInv, Next, NEW t \in Tasks, pc[t] # "connect", pc'[t] = "connect"
      PROVE  forwards'[Socket(endpoint[t])].alive
  <2>0. pc \in [Tasks -> Over \union {"session", "lock", "start", "connect"}]
    BY <1>1 DEF IInv, TypeOK
  <2>1. ASSUME NEW s \in Tasks, \/ CreateChannel(s) \/ SessionReady(s) \/ LookUp(s)
                               \/ ForwardPanics(s) \/ ConnectStep(s)
        PROVE  FALSE
    <3>1. ASSUME LookUp(s) PROVE Goto(s, "start")
      BY <3>1, <1>1, LookUpStarts
    <3>2. pc'[t] = pc[t] \/ pc'[t] \in {"session", "panicked", "lock", "start", "connected", "failed"}
      BY <2>0, <2>1, <3>1
         DEF CreateChannel, SessionReady, ForwardPanics, ConnectStep, Connect, ConnectFails, Goto
    <3> QED
      BY <3>2, <1>1
  <2>2. ASSUME NEW s \in Tasks, ForwardStarted(s) PROVE s = t
    BY <2>2, <2>0, <1>1 DEF ForwardStarted, Goto
  <2>3. PICK s \in Tasks : ForwardStarted(s)
    <3>1. ASSUME NEW k \in DOMAIN forwards, TunnelDies(k) PROVE FALSE
      BY <3>1, <1>1 DEF TunnelDies
    <3> QED
      BY <3>1, <2>1, <1>1 DEF Next, SessionStep
  <2>4. ForwardStarted(t)
    BY <2>2, <2>3
  <2> QED
    BY <2>4 DEF ForwardStarted
<1>2. IInv /\ [Next]_vars
        => [\A t \in Tasks : pc[t] # "connect" /\ pc'[t] = "connect"
                               => forwards'[Socket(endpoint[t])].alive]_vars
  BY <1>1
<1> QED
  BY <1>2, PoolInvariant, PTL DEF Spec, ConnectsThroughLiveTunnel

(***************************************************************************)
(* A channel leads to the service it was asked for, unless dashes in the   *)
(* names of an ssh host make it share a socket with another one.           *)
(***************************************************************************)
THEOREM OwnEndpoint == Spec => []ReachesOwnEndpoint
<1>1. ASSUME IInv, NEW t \in Tasks, pc[t] = "connected", Separable(endpoint[t])
      PROVE  target[t] = endpoint[t]
  <2>1. endpoint[t] \in EndpointType /\ target[t] \in EndpointType
    BY <1>1, EndpointsTyped DEF IInv, TypeOK
  <2>2. Socket(target[t]) = Socket(endpoint[t])
    BY <1>1 DEF IInv, TargetSharesSocket
  <2> QED
    BY <1>1, <2>1, <2>2, SeparableIsAlone
<1>2. IInv => ReachesOwnEndpoint
  BY <1>1 DEF ReachesOwnEndpoint
<1> QED
  BY <1>2, PoolInvariant, PTL

=============================================================================
