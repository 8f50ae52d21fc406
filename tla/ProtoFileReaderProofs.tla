----------------------- MODULE ProtoFileReaderProofs -----------------------
(***************************************************************************)
(* Proofs about the reader of proto files: the service, the rpcs and their *)
(* types are found, for any statements that an author may write.           *)
(*                                                                         *)
(* The invariant says where the reader is by the tokens that are left: in  *)
(* a statement that declares nothing, inside of a declaration at the token *)
(* that its parameters tell, or behind a declaration that is not closed.   *)
(* Beside it, it says which token is still to name the service.            *)
(* The tokens of a declaration are nested, each before all that follow it, *)
(* so that one step of the reader takes one token off; the lemmas of the   *)
(* first half are about sequences and about the statements, those of the   *)
(* second about the actions, one for each place the reader can be in.      *)
(***************************************************************************)
EXTENDS ProtoFileReader, FiniteSetTheorems, TLAPS

(* A sequence is one over any set that has its elements. *)
LEMMA OverElements ==
  ASSUME NEW s, IsSequence(s), NEW T, \A k \in 1 .. Len(s) : s[k] \in T
  PROVE  s \in Seq(T)
<1>1. s = [k \in 1 .. Len(s) |-> s[k]] /\ Len(s) \in Nat
  BY DEF IsSequence
<1>2. \A n \in Nat : \A f \in [1 .. n -> T] : f \in Seq(T)
  OBVIOUS
<1>3. s \in [1 .. Len(s) -> T]
  BY <1>1
<1> QED
  BY <1>1, <1>2, <1>3

(* A sequence over any set is one. *)
LEMMA IsSequenceOf ==
  ASSUME NEW T, NEW s \in Seq(T)
  PROVE  IsSequence(s)
<1>1. Len(s) \in Nat
  OBVIOUS
<1>2. s = [k \in 1 .. Len(s) |-> s[k]]
  OBVIOUS
<1> QED
  BY <1>1, <1>2 DEF IsSequence

(* A word appended comes last, and the others stay where they are. *)
LEMMA AppendedWord ==
  ASSUME NEW s, IsSequence(s), NEW x
  PROVE  /\ IsSequence(Append(s, x)) /\ Len(Append(s, x)) = Len(s) + 1
         /\ \A k \in 1 .. Len(s) : Append(s, x)[k] = s[k]
         /\ Append(s, x)[Len(s) + 1] = x
<1> DEFINE T == {s[k] : k \in 1 .. Len(s)} \union {x}
<1>1. s \in Seq(T)
  BY OverElements
<1>2. x \in T
  OBVIOUS
<1> HIDE DEF T
<1>3. Append(s, x) \in Seq(T)
  BY <1>1, <1>2
<1>4. IsSequence(Append(s, x))
  BY <1>3, IsSequenceOf
<1> QED
  BY <1>1, <1>2, <1>4

(* A word put first is the head of what it is put before. *)
LEMMA FirstWord ==
  ASSUME NEW s, IsSequence(s), NEW x
  PROVE  /\ <<x>> \o s # <<>> /\ Head(<<x>> \o s) = x /\ Tail(<<x>> \o s) = s
         /\ IsSequence(<<x>> \o s) /\ Len(<<x>> \o s) = Len(s) + 1
         /\ (<<x>> \o s)[1] = x
         /\ \A k \in 1 .. Len(s) : (<<x>> \o s)[k + 1] = s[k]
<1> DEFINE T == {s[k] : k \in 1 .. Len(s)} \union {x}
<1>1. s \in Seq(T)
  BY OverElements
<1>2. x \in T
  OBVIOUS
<1> HIDE DEF T
<1>3. <<x>> \o s \in Seq(T)
  BY <1>1, <1>2
<1>4. IsSequence(<<x>> \o s)
  BY <1>3, IsSequenceOf
<1>5. /\ Len(<<x>> \o s) = Len(s) + 1 /\ (<<x>> \o s)[1] = x
      /\ \A k \in 1 .. Len(s) : (<<x>> \o s)[k + 1] = s[k]
  BY <1>1, <1>2
<1>6. <<x>> \o s # <<>> /\ Head(<<x>> \o s) = x
  BY <1>1, <1>3, <1>5
<1>7. Tail(<<x>> \o s) = s
  BY <1>1, <1>3, <1>5, <1>6
<1> QED
  BY <1>4, <1>5, <1>6, <1>7

(* The empty sequence is one, and adds nothing. *)
LEMMA NoWord ==
  /\ IsSequence(<<>>) /\ Len(<<>>) = 0
  /\ \A s : IsSequence(s) => <<>> \o s = s
<1>1. IsSequence(<<>>) /\ Len(<<>>) = 0
  <2>1. <<>> \in Seq({})
    OBVIOUS
  <2> QED
    BY <2>1, IsSequenceOf
<1>2. ASSUME NEW s, IsSequence(s) PROVE <<>> \o s = s
  <2>1. s \in Seq({s[k] : k \in 1 .. Len(s)})
    BY <1>2, OverElements
  <2> QED
    BY <2>1
<1> QED
  BY <1>1, <1>2

(* The tail of a sequence has all its words but the first. *)
LEMMA RestOfWords ==
  ASSUME NEW s, IsSequence(s), s # <<>>
  PROVE  /\ Len(s) \in Nat /\ Len(s) >= 1 /\ Head(s) = s[1]
         /\ IsSequence(Tail(s)) /\ Len(Tail(s)) = Len(s) - 1
         /\ \A k \in 1 .. Len(s) - 1 : Tail(s)[k] = s[k + 1]
<1> DEFINE T == {s[k] : k \in 1 .. Len(s)}
<1>1. s \in Seq(T)
  BY OverElements
<1> HIDE DEF T
<1>2. Tail(s) \in Seq(T)
  BY <1>1
<1>3. IsSequence(Tail(s))
  BY <1>2, IsSequenceOf
<1> QED
  BY <1>1, <1>3

-----------------------------------------------------------------------------
(* A number greater than those of a set gets the place after theirs. *)
LEMMA GreatestPlace ==
  ASSUME NEW S, IsFiniteSet(S), S \subseteq Nat, NEW i \in Nat, \A j \in S : j < i
  PROVE  /\ Cardinality(S) \in Nat
         /\ Cardinality(S \union {i}) = Cardinality(S) + 1
         /\ Place(S \union {i}, i) = Cardinality(S) + 1
         /\ \A j \in S : /\ Place(S \union {i}, j) = Place(S, j)
                        /\ Place(S, j) \in 1 .. Cardinality(S)
<1>1. i \notin S
  <2> SUFFICES ASSUME i \in S PROVE FALSE
    OBVIOUS
  <2> QED
    BY i < i
<1>2. Cardinality(S) \in Nat /\ Cardinality(S \union {i}) = Cardinality(S) + 1
  BY <1>1, FS_AddElement, FS_CardinalityType
<1>3. {j \in S \union {i} : j <= i} = S \union {i}
  <2>1. \A j \in S \union {i} : j <= i
    OBVIOUS
  <2> QED
    BY <2>1, Zenon
<1>4. ASSUME NEW j \in S
      PROVE  /\ Place(S \union {i}, j) = Place(S, j)
             /\ Place(S, j) \in 1 .. Cardinality(S)
  <2> DEFINE L == {k \in S : k <= j}
  <2>1. {k \in S \union {i} : k <= j} = L
    OBVIOUS
  <2>2. IsFiniteSet(L) /\ Cardinality(L) <= Cardinality(S)
    <3>1. L \in SUBSET S
      OBVIOUS
    <3> QED
      BY <3>1, FS_Subset
  <2>3. L # {}
    BY j \in L
  <2> HIDE DEF L
  <2>4. Cardinality(L) \in Nat /\ Cardinality(L) # 0
    BY <2>2, <2>3, FS_EmptySet, FS_CardinalityType
  <2>5. Cardinality(L) \in 1 .. Cardinality(S)
    BY <1>2, <2>2, <2>4
  <2> QED
    BY <2>1, <2>5 DEF Place, L
<1> QED
  BY <1>2, <1>3, <1>4 DEF Place

(* What is found next is found in its place. *)
LEMMA FoundNext ==
  ASSUME NEW found, IsSequence(found), NEW statements, NEW S, IsFiniteSet(S), S \subseteq Nat,
         Finds(found, statements, S), NEW i \in Nat, \A j \in S : j < i,
         NEW r, r.name = statements[i].name,
         BeginsWith(r.in, statements[i].in), BeginsWith(r.out, statements[i].out)
  PROVE  Finds(Append(found, r), statements, S \union {i})
<1> DEFINE longer == Append(found, r)
<1>1. /\ Len(longer) = Len(found) + 1 /\ longer[Len(found) + 1] = r
      /\ \A k \in 1 .. Len(found) : longer[k] = found[k]
  BY AppendedWord
<1>2. Len(found) = Cardinality(S)
  BY DEF Finds
<1>0. /\ Cardinality(S) \in Nat
      /\ Cardinality(S \union {i}) = Cardinality(S) + 1
      /\ Place(S \union {i}, i) = Cardinality(S) + 1
      /\ \A j \in S : /\ Place(S \union {i}, j) = Place(S, j)
                     /\ Place(S, j) \in 1 .. Cardinality(S)
  BY GreatestPlace
<1> HIDE DEF longer
<1>3. Len(longer) = Cardinality(S \union {i})
  BY <1>0, <1>1, <1>2
<1>4. longer[Place(S \union {i}, i)] = r
  BY <1>0, <1>1, <1>2
<1>5. \A j \in S : longer[Place(S \union {i}, j)] = found[Place(S, j)]
  <2> SUFFICES ASSUME NEW j \in S PROVE longer[Place(S \union {i}, j)] = found[Place(S, j)]
    OBVIOUS
  <2>1. Place(S \union {i}, j) = Place(S, j) /\ Place(S, j) \in 1 .. Len(found)
    BY <1>0, <1>2
  <2> QED
    BY <1>1, <2>1
<1>6. Finds(longer, statements, S \union {i})
  BY <1>3, <1>4, <1>5 DEF Finds
<1> QED
  BY <1>6 DEF longer

(* A statement written later changes nothing of those before it. *)
LEMMA WrittenLater ==
  ASSUME NEW T, NEW f \in Seq(T), NEW s \in T
  PROVE  /\ Len(f) \in Nat /\ Len(Append(f, s)) = Len(f) + 1 /\ Append(f, s)[Len(f) + 1] = s
         /\ \A i \in 1 .. Len(f) : Append(f, s)[i] = f[i]
         /\ \A i \in 1 .. Len(f) + 1 : Begun(Append(f, s), i) <=> Begun(f, i)
<1>1. /\ Len(f) \in Nat /\ Len(Append(f, s)) = Len(f) + 1 /\ Append(f, s)[Len(f) + 1] = s
      /\ \A i \in 1 .. Len(f) : Append(f, s)[i] = f[i]
  OBVIOUS
<1>2. ASSUME NEW i \in 1 .. Len(f) + 1
      PROVE  Begun(Append(f, s), i) <=> Begun(f, i)
  <2>1. \A j \in 1 .. i - 1 : Append(f, s)[j] = f[j]
    BY <1>1
  <2>2. \A j \in 1 .. i - 1 : \A n \in j .. i - 1 : Append(f, s)[n] = f[n]
    BY <1>1
  <2> QED
    BY <2>1, <2>2 DEF Begun
<1> QED
  BY <1>1, <1>2

(* The rpcs that are seen are finitely many places of the file. *)
LEMMA SeenArePlaces ==
  ASSUME NEW T, NEW f \in Seq(T)
  PROVE  SeenIn(f) \subseteq 1 .. Len(f) /\ SeenIn(f) \subseteq Nat /\ IsFiniteSet(SeenIn(f))
<1>1. SeenIn(f) \subseteq 1 .. Len(f)
  BY DEF SeenIn
<1>2. Len(f) \in Nat
  OBVIOUS
<1>3. IsFiniteSet(1 .. Len(f))
  BY <1>2, FS_Interval
<1> QED
  BY <1>1, <1>2, <1>3, FS_Subset

(* Where nothing is open, a new statement opens at most itself. *)
LEMMA SeenBefore ==
  ASSUME NEW T, NEW f \in Seq(T), NEW s \in T, Begun(f, Len(f) + 1)
  PROVE  /\ SeenIn(Append(f, s)) \ {Len(f) + 1} = SeenIn(f)
         /\ s.is # "rpc" => /\ SeenIn(Append(f, s)) = SeenIn(f)
                            /\ Begun(Append(f, s), Len(f) + 2)
<1> DEFINE g == Append(f, s)
<1>1. /\ Len(f) \in Nat /\ Len(g) = Len(f) + 1 /\ g[Len(f) + 1] = s
      /\ \A i \in 1 .. Len(f) : g[i] = f[i]
      /\ \A i \in 1 .. Len(f) + 1 : Begun(g, i) <=> Begun(f, i)
  BY WrittenLater
<1> HIDE DEF g
<1>2. ASSUME NEW i \in 1 .. Len(f), f[i].is = "rpc"
      PROVE  /\ \E n \in i .. Len(f) : HasSemicolon(f[n])
             /\ \E n \in i .. Len(g) : HasSemicolon(g[n])
  <2>1. PICK n \in i .. Len(f) : HasSemicolon(f[n])
    BY <1>1, <1>2 DEF Begun
  <2>2. n \in i .. Len(g) /\ HasSemicolon(g[n])
    BY <1>1, <2>1
  <2> QED
    BY <2>1, <2>2
<1>3. ASSUME NEW i \in 1 .. Len(f) PROVE i \in SeenIn(g) <=> i \in SeenIn(f)
  <2>1. i \in 1 .. Len(g) /\ i \in 1 .. Len(f) + 1 /\ g[i] = f[i]
    BY <1>1
  <2>2. Begun(g, i) <=> Begun(f, i)
    BY <1>1, <2>1
  <2>3. CASE f[i].is = "rpc"
    BY <1>2, <2>1, <2>2, <2>3 DEF SeenIn
  <2>4. CASE f[i].is # "rpc"
    BY <2>1, <2>4 DEF SeenIn
  <2> QED
    BY <2>3, <2>4
<1>4. SeenIn(g) \subseteq 1 .. Len(f) + 1 /\ SeenIn(f) \subseteq 1 .. Len(f)
  BY <1>1 DEF SeenIn
<1>5. SeenIn(g) \ {Len(f) + 1} = SeenIn(f)
  <2>1. \A i \in 1 .. Len(f) + 1 : i # Len(f) + 1 => i \in 1 .. Len(f)
    BY <1>1
  <2>2. Len(f) + 1 \notin 1 .. Len(f)
    BY <1>1
  <2> QED
    BY <1>3, <1>4, <2>1, <2>2, Zenon
<1>6. ASSUME s.is # "rpc" PROVE SeenIn(g) = SeenIn(f) /\ Begun(g, Len(f) + 2)
  <2>1. Len(f) + 1 \notin SeenIn(g)
    BY <1>1, <1>6 DEF SeenIn
  <2>2. ASSUME NEW j \in 1 .. (Len(f) + 2) - 1, g[j].is = "rpc"
        PROVE  \E n \in j .. (Len(f) + 2) - 1 : HasSemicolon(g[n])
    <3>1. j \in 1 .. Len(f) /\ f[j].is = "rpc"
      BY <1>1, <1>6, <2>2
    <3> QED
      BY <1>1, <1>2, <3>1
  <2>3. Begun(g, Len(f) + 2)
    BY <2>2 DEF Begun
  <2> QED
    BY <1>5, <2>1, <2>3
<1> QED
  BY <1>5, <1>6 DEF g

(* While rpc i is open, nothing after it is begun. *)
LEMMA NothingBegunAfter ==
  ASSUME NEW T, NEW f \in Seq(T), NEW i \in 1 .. Len(f), f[i].is = "rpc",
         NEW m \in Nat, \A n \in i .. m : ~HasSemicolon(f[n]),
         NEW j \in i + 1 .. m + 1
  PROVE  ~Begun(f, j)
<1> SUFFICES ASSUME Begun(f, j) PROVE FALSE
  OBVIOUS
<1>1. i \in 1 .. j - 1
  OBVIOUS
<1>2. PICK n \in i .. j - 1 : HasSemicolon(f[n])
  BY <1>1 DEF Begun
<1>3. n \in i .. m
  BY <1>2
<1> QED
  BY <1>2, <1>3

(* A new statement may close the open rpc, and no other. *)
LEMMA SeenMeanwhile ==
  ASSUME NEW T, NEW f \in Seq(T), NEW s \in T, NEW i \in 1 .. Len(f),
         f[i].is = "rpc", Begun(f, i), \A n \in i .. Len(f) : ~HasSemicolon(f[n])
  PROVE  SeenIn(Append(f, s)) \ {i} = SeenIn(f) \ {i}
<1> DEFINE g == Append(f, s)
<1>1. /\ Len(f) \in Nat /\ Len(g) = Len(f) + 1 /\ g[Len(f) + 1] = s /\ g \in Seq(T)
      /\ \A j \in 1 .. Len(f) : g[j] = f[j]
      /\ \A j \in 1 .. Len(f) + 1 : Begun(g, j) <=> Begun(f, j)
  BY WrittenLater
<1> HIDE DEF g
<1>2. \A j \in i + 1 .. Len(f) + 1 : ~Begun(f, j)
  BY <1>1, NothingBegunAfter
<1>3. ASSUME NEW j \in 1 .. i - 1 PROVE j \in SeenIn(g) <=> j \in SeenIn(f)
  <2>1. j \in 1 .. Len(f) /\ j \in 1 .. Len(g) /\ g[j] = f[j] /\ (Begun(g, j) <=> Begun(f, j))
    BY <1>1
  <2>2. CASE f[j].is = "rpc"
    <3>1. PICK n \in j .. i - 1 : HasSemicolon(f[n])
      BY <2>2 DEF Begun
    <3>2. n \in j .. Len(f) /\ n \in j .. Len(g) /\ HasSemicolon(g[n])
      BY <1>1, <3>1
    <3> QED
      BY <2>1, <3>1, <3>2 DEF SeenIn
  <2>3. CASE f[j].is # "rpc"
    BY <2>1, <2>3 DEF SeenIn
  <2> QED
    BY <2>2, <2>3
<1>4. ASSUME NEW j \in i + 1 .. Len(f) + 1 PROVE j \notin SeenIn(g) /\ j \notin SeenIn(f)
  BY <1>1, <1>2 DEF SeenIn
<1>5. SeenIn(g) \subseteq 1 .. Len(f) + 1 /\ SeenIn(f) \subseteq 1 .. Len(f) + 1
  BY <1>1 DEF SeenIn
<1>6. \A j \in 1 .. Len(f) + 1 : j # i => j \in 1 .. i - 1 \/ j \in i + 1 .. Len(f) + 1
  BY <1>1
<1>7. SeenIn(g) \ {i} = SeenIn(f) \ {i}
  BY <1>3, <1>4, <1>5, <1>6, Zenon
<1> QED
  BY <1>7 DEF g

(* What was found stays what was written. *)
LEMMA FoundBefore ==
  ASSUME NEW T, NEW f \in Seq(T), NEW s \in T, NEW S, S \subseteq 1 .. Len(f),
         NEW found, Finds(found, f, S)
  PROVE  Finds(found, Append(f, s), S)
<1>1. \A i \in S : Append(f, s)[i] = f[i]
  BY WrittenLater
<1> QED
  BY <1>1 DEF Finds

-----------------------------------------------------------------------------
(* The words of the syntax differ from one another. *)
LEMMA WordsDiffer == \A a, b : a # b => Word(a) # Word(b)
<1>1. \A a, b : <<a>>[1] = a /\ <<b>>[1] = b
  OBVIOUS
<1> QED
  BY <1>1 DEF Word

(* Those that the reader tells apart. *)
LEMMA SyntaxDiffers ==
  /\ Word("rpc") # Service /\ Service # Semicolon
  /\ Word("rpc") \notin {Word("("), Word(")"), Stream, Returns, Semicolon}
  /\ Semicolon \notin {Word("("), Word(")"), Stream, Returns}
  /\ Word("(") # Word(")")
  /\ Stream \notin {Word("("), Word(")"), Returns}
BY WordsDiffer DEF Stream, Returns, Semicolon, Service

(* Tokens none of which begins an rpc. *)
NoRpc(q) == IsSequence(q) /\ \A k \in 1 .. Len(q) : q[k] # Word("rpc")

(* A sequence over words other than rpc begins none. *)
LEMMA NoRpcAmong ==
  ASSUME NEW T, Word("rpc") \notin T, NEW q \in Seq(T)
  PROVE  NoRpc(q)
<1>1. \A k \in 1 .. Len(q) : q[k] \in T
  OBVIOUS
<1> QED
  BY <1>1, IsSequenceOf DEF NoRpc

(* No rpc begins when another word is put first. *)
LEMMA NoRpcFirst ==
  ASSUME NEW q, NoRpc(q), NEW x, x # Word("rpc")
  PROVE  NoRpc(<<x>> \o q)
<1> DEFINE longer == <<x>> \o q
<1>1. /\ IsSequence(longer) /\ Len(longer) = Len(q) + 1 /\ longer[1] = x /\ Len(q) \in Nat
      /\ \A k \in 1 .. Len(q) : longer[k + 1] = q[k]
  BY FirstWord DEF NoRpc, IsSequence
<1> HIDE DEF longer
<1>2. ASSUME NEW k \in 1 .. Len(longer) PROVE longer[k] # Word("rpc")
  <2>1. CASE k = 1
    BY <1>1, <2>1
  <2>2. CASE k # 1
    <3>1. k - 1 \in 1 .. Len(q) /\ (k - 1) + 1 = k
      BY <1>1, <2>2
    <3>2. longer[k] = q[k - 1]
      BY <1>1, <3>1
    <3> QED
      BY <3>1, <3>2 DEF NoRpc
  <2> QED
    BY <2>1, <2>2
<1>3. NoRpc(longer)
  BY <1>1, <1>2 DEF NoRpc
<1> QED
  BY <1>3 DEF longer

(* A word put first adds a semicolon only if it is one. *)
LEMMA SemicolonFirst ==
  ASSUME NEW q, IsSequence(q), NEW x
  PROVE  Contains(<<x>> \o q, Semicolon) <=> x = Semicolon \/ Contains(q, Semicolon)
<1> DEFINE longer == <<x>> \o q
<1>1. /\ Len(longer) = Len(q) + 1 /\ longer[1] = x /\ Len(q) \in Nat
      /\ \A k \in 1 .. Len(q) : longer[k + 1] = q[k]
  BY FirstWord DEF IsSequence
<1> HIDE DEF longer
<1>2. ASSUME NEW k \in 1 .. Len(longer), longer[k] = Semicolon, x # Semicolon
      PROVE  \E n \in 1 .. Len(q) : q[n] = Semicolon
  <2>1. k # 1
    BY <1>1, <1>2
  <2>2. k - 1 \in 1 .. Len(q) /\ (k - 1) + 1 = k
    BY <1>1, <2>1
  <2>3. q[k - 1] = Semicolon
    BY <1>1, <1>2, <2>2
  <2> QED
    BY <2>2, <2>3
<1>3. ASSUME x = Semicolon PROVE \E k \in 1 .. Len(longer) : longer[k] = Semicolon
  <2>1. 1 \in 1 .. Len(longer)
    BY <1>1
  <2> QED
    BY <1>1, <1>3, <2>1
<1>4. ASSUME NEW n \in 1 .. Len(q), q[n] = Semicolon
      PROVE  \E k \in 1 .. Len(longer) : longer[k] = Semicolon
  <2>1. n + 1 \in 1 .. Len(longer)
    BY <1>1
  <2>2. longer[n + 1] = Semicolon
    BY <1>1, <1>4
  <2> QED
    BY <2>1, <2>2
<1>5. Contains(longer, Semicolon) <=> x = Semicolon \/ Contains(q, Semicolon)
  BY <1>2, <1>3, <1>4 DEF Contains
<1> QED
  BY <1>5 DEF longer

(* What is left after a word has a semicolon if all had one and it is none. *)
LEMMA SemicolonLater ==
  ASSUME NEW q, IsSequence(q), q # <<>>
  PROVE  Contains(q, Semicolon) <=> Head(q) = Semicolon \/ Contains(Tail(q), Semicolon)
<1>1. /\ Len(q) \in Nat /\ Len(q) >= 1 /\ Head(q) = q[1]
      /\ Len(Tail(q)) = Len(q) - 1
      /\ \A k \in 1 .. Len(q) - 1 : Tail(q)[k] = q[k + 1]
  BY RestOfWords
<1> DEFINE later == Tail(q)
           first == Head(q)
<1>2. /\ Len(later) = Len(q) - 1 /\ first = q[1]
      /\ \A k \in 1 .. Len(q) - 1 : later[k] = q[k + 1]
  BY <1>1
<1> HIDE DEF later, first
<1>3. ASSUME NEW k \in 1 .. Len(q), q[k] = Semicolon, first # Semicolon
      PROVE  \E n \in 1 .. Len(later) : later[n] = Semicolon
  <2>1. k # 1
    BY <1>2, <1>3
  <2>2. k - 1 \in 1 .. Len(q) - 1 /\ (k - 1) + 1 = k
    BY <1>1, <2>1
  <2>3. later[k - 1] = Semicolon
    BY <1>2, <1>3, <2>2
  <2> QED
    BY <1>2, <2>2, <2>3
<1>4. ASSUME first = Semicolon PROVE \E k \in 1 .. Len(q) : q[k] = Semicolon
  <2>1. 1 \in 1 .. Len(q)
    BY <1>1
  <2> QED
    BY <1>2, <1>4, <2>1
<1>5. ASSUME NEW n \in 1 .. Len(later), later[n] = Semicolon
      PROVE  \E k \in 1 .. Len(q) : q[k] = Semicolon
  <2>1. n \in 1 .. Len(q) - 1 /\ n + 1 \in 1 .. Len(q)
    BY <1>1, <1>2
  <2>2. q[n + 1] = Semicolon
    BY <1>2, <1>5, <2>1
  <2> QED
    BY <2>1, <2>2
<1>6. Contains(q, Semicolon) <=> first = Semicolon \/ Contains(later, Semicolon)
  BY <1>3, <1>4, <1>5 DEF Contains
<1> QED
  BY <1>6 DEF later, first

-----------------------------------------------------------------------------
(* The tokens of the statements.                                           *)

(* Tokens that declare nothing, and have a semicolon if those of then have. *)
LeadsTo(q, then) == NoRpc(q) /\ (Contains(q, Semicolon) <=> Contains(then, Semicolon))

(* A word that is neither rpc nor a semicolon changes nothing of it. *)
LEMMA LeadsOn ==
  ASSUME NEW q, NEW then, LeadsTo(q, then), NEW x, x # Word("rpc"), x # Semicolon
  PROVE  LeadsTo(<<x>> \o q, then)
BY NoRpcFirst, SemicolonFirst DEF LeadsTo, NoRpc

(* The tokens of a parameter, from each of its places on. *)
LEMMA ParametersLead ==
  ASSUME NEW p, IsParameter(p), NEW then, NoRpc(then)
  PROVE  /\ LeadsTo(<<Word(")")>> \o then, then) /\ LeadsTo(TypeTokens(p, then), then)
         /\ LeadsTo(StreamTokens(p, then), then) /\ LeadsTo(ParameterTokens(p, then), then)
<1>0. /\ p.type # Word("rpc") /\ p.type # Semicolon
      /\ Word("(") # Word("rpc") /\ Word("(") # Semicolon
      /\ Word(")") # Word("rpc") /\ Word(")") # Semicolon
      /\ Stream # Word("rpc") /\ Stream # Semicolon
  BY SyntaxDiffers DEF IsParameter, IsName, IsWord
<1>1. LeadsTo(then, then)
  BY DEF LeadsTo
<1>2. LeadsTo(<<Word(")")>> \o then, then)
  BY <1>0, <1>1, LeadsOn
<1>3. LeadsTo(TypeTokens(p, then), then)
  BY <1>0, <1>2, LeadsOn DEF TypeTokens
<1>4. LeadsTo(StreamTokens(p, then), then)
  <2>1. CASE p.stream
    BY <1>0, <1>3, <2>1, LeadsOn DEF StreamTokens
  <2>2. CASE ~p.stream
    BY <1>3, <2>2, NoWord DEF StreamTokens, LeadsTo, NoRpc
  <2> QED
    BY <2>1, <2>2
<1>5. LeadsTo(ParameterTokens(p, then), then)
  BY <1>0, <1>4, LeadsOn DEF ParameterTokens
<1> QED
  BY <1>2, <1>3, <1>4, <1>5

(* What ends an rpc, form by form. *)
LEMMA Closings ==
  /\ Closing("semicolon") = <<Semicolon>>
  /\ Closing("braces") = <<Word("{"), Word("}")>>
  /\ Closing("option") =
       <<Word("{"), Word("option"), Word("("), <<"google", "api", "http">>,
         Word(")"), Word("="), Semicolon, Word("}")>>
<1>1. Closing("semicolon") = <<Semicolon>>
  BY ZenonT(30) DEF Closing
<1>2. Closing("braces") = <<Word("{"), Word("}")>>
  BY ZenonT(30) DEF Closing
<1>3. Closing("option") =
        <<Word("{"), Word("option"), Word("("), <<"google", "api", "http">>,
          Word(")"), Word("="), Semicolon, Word("}")>>
  BY ZenonT(30) DEF Closing
<1> QED
  BY <1>1, <1>2, <1>3, Zenon

(* Sequences as they are written out. *)
LEMMA Tuples ==
  \A T :
    /\ \A a \in T : <<a>> \in Seq(T)
    /\ \A a, b \in T : <<a, b>> \in Seq(T)
    /\ \A a, b, c \in T : <<a, b, c>> \in Seq(T)
    /\ \A a, b, c, d, e \in T : <<a, b, c, d, e>> \in Seq(T)
    /\ \A a, b, c, d, e, f, g, h \in T : <<a, b, c, d, e, f, g, h>> \in Seq(T)
OBVIOUS

(* The words there are in endings. *)
OtherWords ==
  {Semicolon, Word("("), Word(")"), Word("{"), Word("}"), Word("="), Word("option"),
   <<"google", "api", "http">>}

(* None of them begins a declaration. *)
LEMMA OtherWordsDeclareNothing ==
  Word("rpc") \notin OtherWords /\ Service \notin OtherWords
<1>1. \A a, b, c, d : <<a>> # <<b, c, d>>
  <2>1. \A a, b, c, d : Len(<<a>>) = 1 /\ Len(<<b, c, d>>) = 3
    OBVIOUS
  <2> QED
    BY <2>1
<1>2. /\ Word("rpc") # <<"google", "api", "http">>
      /\ Service # <<"google", "api", "http">>
  BY <1>1 DEF Word, Service
<1>3. ASSUME NEW w \in {"rpc", "service"}
      PROVE  Word(w) \notin {Semicolon, Word("("), Word(")"), Word("{"), Word("}"), Word("="),
                             Word("option")}
  BY WordsDiffer DEF Semicolon
<1> QED
  BY <1>2, <1>3 DEF OtherWords, Service

(* All endings are made of them. *)
LEMMA ClosingsDeclareNothing ==
  ASSUME NEW how \in {"semicolon", "braces", "option"}
  PROVE  Closing(how) \in Seq(OtherWords)
<1>1. /\ Semicolon \in OtherWords /\ Word("(") \in OtherWords /\ Word(")") \in OtherWords
      /\ Word("{") \in OtherWords /\ Word("}") \in OtherWords /\ Word("=") \in OtherWords
      /\ Word("option") \in OtherWords /\ <<"google", "api", "http">> \in OtherWords
  BY DEF OtherWords
<1>2. <<Semicolon>> \in Seq(OtherWords) /\ <<Word("{"), Word("}")>> \in Seq(OtherWords)
  BY <1>1, Tuples, Zenon
<1>3. <<Word("{"), Word("option"), Word("("), <<"google", "api", "http">>,
        Word(")"), Word("="), Semicolon, Word("}")>> \in Seq(OtherWords)
  BY <1>1, Tuples, Zenon
<1>4. /\ Closing("semicolon") \in Seq(OtherWords) /\ Closing("braces") \in Seq(OtherWords)
      /\ Closing("option") \in Seq(OtherWords)
  BY <1>2, <1>3, Closings, Zenon
<1> QED
  BY <1>4, Zenon

(* A declaration has its ending's semicolon, if any, and one word "rpc". *)
LEMMA DeclarationLeads ==
  ASSUME NEW s \in Statements, s.is = "rpc"
  PROVE  /\ NoRpc(Closing(s.close)) /\ IsParameter(s.in) /\ IsParameter(s.out)
         /\ LeadsTo(OutputTokens(s), Closing(s.close))
         /\ LeadsTo(NameTokens(s), Closing(s.close))
         /\ Tokens(s) = RpcTokens(s)
         /\ HasSemicolon(s) <=> Contains(Closing(s.close), Semicolon)
<1>1. /\ s.close \in {"semicolon", "braces", "option"}
      /\ IsName(Word(s.name)) /\ IsParameter(s.in) /\ IsParameter(s.out)
  BY StatementsAssumption DEF StatementsAssumption
<1>2. NoRpc(Closing(s.close))
  BY <1>1, ClosingsDeclareNothing, OtherWordsDeclareNothing, NoRpcAmong
<1>3. LeadsTo(OutputTokens(s), Closing(s.close))
  <2>1. LeadsTo(ParameterTokens(s.out, Closing(s.close)), Closing(s.close))
    BY <1>1, <1>2, ParametersLead
  <2>2. Returns # Word("rpc") /\ Returns # Semicolon
    BY SyntaxDiffers
  <2> QED
    BY <2>1, <2>2, LeadsOn DEF OutputTokens
<1>4. LeadsTo(NameTokens(s), Closing(s.close))
  <2>1. LeadsTo(ParameterTokens(s.in, OutputTokens(s)), OutputTokens(s))
    BY <1>1, <1>3, ParametersLead DEF LeadsTo
  <2>2. LeadsTo(ParameterTokens(s.in, OutputTokens(s)), Closing(s.close))
    BY <1>3, <2>1 DEF LeadsTo
  <2>3. Word(s.name) # Word("rpc") /\ Word(s.name) # Semicolon
    BY <1>1 DEF IsName, IsWord
  <2> QED
    BY <2>2, <2>3, LeadsOn DEF NameTokens
<1>5. Tokens(s) = RpcTokens(s)
  BY DEF Tokens
<1>6. Contains(RpcTokens(s), Semicolon) <=> Contains(Closing(s.close), Semicolon)
  <2>1. Word("rpc") # Semicolon
    BY SyntaxDiffers
  <2> QED
    BY <1>4, <2>1, SemicolonFirst DEF RpcTokens, LeadsTo, NoRpc
<1> QED
  BY <1>1, <1>2, <1>3, <1>4, <1>5, <1>6 DEF HasSemicolon

(* The words of a sequence that is written out. *)
LEMMA ThreeWords ==
  \A a, b, c, t : t = <<a, b, c>> =>
    IsSequence(t) /\ Len(t) = 3 /\ t[1] = a /\ t[2] = b /\ t[3] = c
<1> SUFFICES ASSUME NEW a, NEW b, NEW c
             PROVE  LET t == <<a, b, c>>
                    IN  IsSequence(t) /\ Len(t) = 3 /\ t[1] = a /\ t[2] = b /\ t[3] = c
  OBVIOUS
<1>1. <<a, b, c>> \in Seq({a, b, c})
  OBVIOUS
<1>2. IsSequence(<<a, b, c>>)
  BY <1>1, IsSequenceOf
<1>3. /\ Len(<<a, b, c>>) = 3
      /\ <<a, b, c>>[1] = a /\ <<a, b, c>>[2] = b /\ <<a, b, c>>[3] = c
  OBVIOUS
<1> QED
  BY <1>2, <1>3

LEMMA FiveWords ==
  \A a, b, c, d, e, t : t = <<a, b, c, d, e>> =>
    /\ IsSequence(t) /\ Len(t) = 5
    /\ t[1] = a /\ t[2] = b /\ t[3] = c /\ t[4] = d /\ t[5] = e
<1> SUFFICES ASSUME NEW a, NEW b, NEW c, NEW d, NEW e
             PROVE  LET t == <<a, b, c, d, e>>
                    IN  /\ IsSequence(t) /\ Len(t) = 5
                        /\ t[1] = a /\ t[2] = b /\ t[3] = c /\ t[4] = d /\ t[5] = e
  OBVIOUS
<1>1. <<a, b, c, d, e>> \in Seq({a, b, c, d, e})
  OBVIOUS
<1>2. IsSequence(<<a, b, c, d, e>>)
  BY <1>1, IsSequenceOf
<1>3. /\ Len(<<a, b, c, d, e>>) = 5
      /\ <<a, b, c, d, e>>[1] = a /\ <<a, b, c, d, e>>[2] = b /\ <<a, b, c, d, e>>[3] = c
      /\ <<a, b, c, d, e>>[4] = d /\ <<a, b, c, d, e>>[5] = e
  OBVIOUS
<1> QED
  BY <1>2, <1>3

(* The tokens of a field and those of a service, one by one. *)
LEMMA FieldWords ==
  ASSUME NEW s \in Statements, s.is = "field"
  PROVE  /\ IsSequence(Tokens(s)) /\ Len(Tokens(s)) = 5 /\ s.name # "rpc"
         /\ Tokens(s)[1] = Word("string") /\ Tokens(s)[2] = Word(s.name)
         /\ Tokens(s)[3] = Word("=") /\ Tokens(s)[4] = Word("1") /\ Tokens(s)[5] = Semicolon
<1>1. Tokens(s) = <<Word("string"), Word(s.name), Word("="), Word("1"), Semicolon>>
  BY DEF Tokens
<1>2. s.name # "rpc"
  BY StatementsAssumption DEF StatementsAssumption
<1> QED
  BY <1>1, <1>2, FiveWords

LEMMA ServiceWords ==
  ASSUME NEW s \in Statements, s.is = "service"
  PROVE  /\ IsSequence(Tokens(s)) /\ Len(Tokens(s)) = 3 /\ IsName(Word(s.name))
         /\ Tokens(s)[1] = Service /\ Tokens(s)[2] = Word(s.name) /\ Tokens(s)[3] = Word("{")
<1>1. Tokens(s) = <<Service, Word(s.name), Word("{")>>
  BY DEF Tokens
<1>2. IsName(Word(s.name))
  BY StatementsAssumption DEF StatementsAssumption
<1>3. /\ IsSequence(Tokens(s)) /\ Len(Tokens(s)) = 3
      /\ Tokens(s)[1] = Service /\ Tokens(s)[2] = Word(s.name) /\ Tokens(s)[3] = Word("{")
  <2> DEFINE a == Service
             b == Word(s.name)
             c == Word("{")
             t == Tokens(s)
  <2>1. t = <<a, b, c>>
    BY <1>1
  <2> HIDE DEF a, b, c, t
  <2>2. IsSequence(t) /\ Len(t) = 3 /\ t[1] = a /\ t[2] = b /\ t[3] = c
    BY <2>1, ThreeWords
  <2> QED
    BY <2>2 DEF a, b, c, t
<1> QED
  BY <1>2, <1>3

(* All other statements declare no rpc. *)
LEMMA OthersDeclareNothing ==
  ASSUME NEW s \in Statements, s.is # "rpc"
  PROVE  NoRpc(Tokens(s))
<1>1. CASE s.is = "field"
  <2> DEFINE t == Tokens(s)
  <2>1. /\ IsSequence(t) /\ Len(t) = 5 /\ s.name # "rpc"
        /\ t[1] = Word("string") /\ t[2] = Word(s.name) /\ t[3] = Word("=")
        /\ t[4] = Word("1") /\ t[5] = Semicolon
    BY <1>1, FieldWords
  <2> HIDE DEF t
  <2>2. /\ Word("string") # Word("rpc") /\ Word(s.name) # Word("rpc") /\ Word("=") # Word("rpc")
        /\ Word("1") # Word("rpc") /\ Semicolon # Word("rpc")
    BY <2>1, WordsDiffer DEF Semicolon
  <2>3. ASSUME NEW k \in 1 .. Len(t) PROVE t[k] # Word("rpc")
    <3>1. k = 1 \/ k = 2 \/ k = 3 \/ k = 4 \/ k = 5
      BY <2>1
    <3> QED
      BY <2>1, <2>2, <3>1
  <2>4. NoRpc(t)
    BY <2>1, <2>3 DEF NoRpc
  <2> QED
    BY <2>4 DEF t
<1>2. CASE s.is = "service"
  <2> DEFINE t == Tokens(s)
  <2>1. /\ IsSequence(t) /\ Len(t) = 3
        /\ t[1] = Service /\ t[2] = Word(s.name) /\ t[3] = Word("{")
        /\ IsName(Word(s.name))
    BY <1>2, ServiceWords
  <2> HIDE DEF t
  <2>2. Word("rpc") \notin {Service, Word(s.name), Word("{")}
    BY <2>1, WordsDiffer DEF IsName, IsWord, Service
  <2>3. ASSUME NEW k \in 1 .. Len(t) PROVE t[k] # Word("rpc")
    <3>1. k = 1 \/ k = 2 \/ k = 3
      <4>1. Len(t) = 3
        BY <2>1
      <4> QED
        BY <4>1
    <3> QED
      BY <2>1, <2>2, <3>1
  <2>4. NoRpc(t)
    BY <2>1, <2>3 DEF NoRpc
  <2> QED
    BY <2>4 DEF t
<1>3. CASE s.is = "comment"
  <2>1. CASE s.ownLine
    BY <1>3, <2>1, NoWord DEF Tokens, CommentTokens, NoRpc
  <2>2. CASE ~s.ownLine
    <3>1. s.words \in Seq(Seq(STRING) \ {<<>>, Word("rpc")})
      BY <1>3, <2>2, StatementsAssumption DEF StatementsAssumption
    <3>2. NoRpc(s.words)
      BY <3>1, NoRpcAmong
    <3>3. Word("//") # Word("rpc")
      BY WordsDiffer
    <3> QED
      BY <1>3, <2>2, <3>2, <3>3, NoRpcFirst DEF Tokens, CommentTokens
  <2> QED
    BY <2>1, <2>2
<1> QED
  BY <1>1, <1>2, <1>3, StatementsAssumption DEF StatementsAssumption

-----------------------------------------------------------------------------
(* The invariant of the reader, action by action.                          *)

(* Nothing is written, and nothing found. *)
LEMMA InitIInv == Init => IInv
<1> SUFFICES ASSUME Init PROVE IInv
  OBVIOUS
<1>1. /\ file = <<>> /\ rest = <<>> /\ rpc = <<>> /\ input_param = <<>> /\ out_param = <<>>
      /\ current_token = "None" /\ service_name = None /\ result = "reading"
  BY DEF Init
<1>2. Len(<<>>) = 0 /\ 1 .. Len(<<>>) = {} /\ <<>> \in Seq(Statements)
  OBVIOUS
<1>3. Begun(file, Len(file) + 1)
  BY <1>1, <1>2 DEF Begun
<1>4. Seen = {} /\ NamingIn(file) = {} /\ Mentions(rest) = {}
  BY <1>1, <1>2 DEF Seen, SeenIn, NamingIn, Mentions
<1>5. Finds(rpc, file, Seen)
  BY <1>1, <1>4, NoWord, FS_EmptySet DEF Finds
<1>6. TypeOK
  BY <1>1, <1>2, NoWord DEF TypeOK
<1>7. Idle
  BY <1>1, <1>2, <1>3, <1>5 DEF Idle
<1>8. NameDue
  BY <1>1, <1>4 DEF NameDue, OneMention, IsNamed
<1> QED
  BY <1>1, <1>6, <1>7, <1>8 DEF IInv, Ended

(* The file is a sequence of statements, and has a last one unless it is empty. *)
LEMMA FileIsSeq ==
  ASSUME TypeOK
  PROVE  /\ file \in Seq(Statements) /\ Len(file) \in Nat
         /\ file # <<>> => Len(file) \in 1 .. Len(file)
         /\ \A i \in 1 .. Len(file) : file[i] \in Statements /\ Len(file) \in 1 .. Len(file)
BY DEF TypeOK

(* The types are kept by every step. *)
LEMMA TypeStep == TypeOK /\ [Next]_vars => TypeOK'
<1> SUFFICES ASSUME TypeOK, [Next]_vars PROVE TypeOK'
  OBVIOUS
<1> USE DEF TypeOK
<1>1. ASSUME rest # <<>> PROVE IsSequence(Tail(rest))
  BY <1>1, RestOfWords
<1>2. CASE WriteStatement
  <2>1. PICK s \in Statements : file' = Append(file, s) /\ rest' = Tokens(s)
    BY <1>2 DEF WriteStatement
  <2>2. IsSequence(Tokens(s))
    <3>1. CASE s.is = "rpc"
      <4>1. Tokens(s) = <<Word("rpc")>> \o NameTokens(s) /\ IsSequence(NameTokens(s))
        BY <3>1, DeclarationLeads DEF LeadsTo, NoRpc, RpcTokens
      <4> QED
        BY <4>1, FirstWord
    <3>2. CASE s.is # "rpc"
      BY <3>2, OthersDeclareNothing DEF NoRpc
    <3> QED
      BY <3>1, <3>2
  <2>3. file' \in Seq(Statements)
    BY <2>1
  <2> QED
    BY <1>2, <2>1, <2>2, <2>3 DEF WriteStatement, paramVars
<1>3. CASE ReadNone
  BY <1>1, <1>3 DEF ReadNone, Reads, paramVars
<1>4. CASE ReadServiceName
  BY <1>1, <1>4 DEF ReadServiceName, Reads, paramVars
<1>5. CASE ReadRpcName
  BY <1>1, <1>5, NoWord DEF ReadRpcName, Reads
<1>6. CASE ReadInputParameter
  <2>1. IsSequence(input_param')
    BY <1>6, AppendedWord DEF ReadInputParameter
  <2> QED
    BY <1>1, <1>6, <2>1 DEF ReadInputParameter, Reads
<1>7. CASE ReadOutputParameter
  <2>1. IsSequence(out_param')
    BY <1>7, AppendedWord DEF ReadOutputParameter
  <2> QED
    BY <1>1, <1>7, <2>1 DEF ReadOutputParameter, Reads
<1>8. CASE CloseRpc
  <2>1. IsSequence(out_param') /\ IsSequence(rpc')
    BY <1>8, AppendedWord DEF CloseRpc
  <2> QED
    BY <1>1, <1>8, <2>1 DEF CloseRpc, Reads
<1>9. CASE Finish
  BY <1>9 DEF Finish, paramVars
<1>10. CASE UNCHANGED vars
  BY <1>10 DEF vars, paramVars
<1> QED
  BY <1>2, <1>3, <1>4, <1>5, <1>6, <1>7, <1>8, <1>9, <1>10 DEF Next

(* In a service that nothing was left open in, a statement is written. *)
LEMMA IdleWrites ==
  ASSUME TypeOK, Idle, current_token = "None", WriteStatement
  PROVE  Idle' \/ Declaring'
<1> DEFINE T == Statements
<1>1. PICK s \in Statements : file' = Append(file, s) /\ rest' = Tokens(s)
  BY DEF WriteStatement
<1>2. file \in Seq(T) /\ s \in T /\ Len(file) \in Nat
  BY FileIsSeq
<1>3. Begun(file, Len(file) + 1) /\ Finds(rpc, file, SeenIn(file))
  BY DEF Idle, Seen
<1>4. /\ Len(file') = Len(file) + 1 /\ file'[Len(file) + 1] = s
      /\ Begun(file', Len(file) + 1) <=> Begun(file, Len(file) + 1)
  BY <1>1, <1>2, WrittenLater
<1>5. /\ SeenIn(file') \ {Len(file) + 1} = SeenIn(file)
      /\ s.is # "rpc" => SeenIn(file') = SeenIn(file) /\ Begun(file', Len(file) + 2)
  BY <1>1, <1>2, <1>3, SeenBefore
<1>6. Finds(rpc, file', SeenIn(file))
  BY <1>1, <1>2, <1>3, SeenArePlaces, FoundBefore
<1>7. rpc' = rpc /\ current_token' = "None"
  BY DEF WriteStatement
<1>8. CASE s.is = "rpc"
  <2>1. rest' = RpcTokens(s)
    BY <1>1, <1>8, DeclarationLeads
  <2>2. file'[Len(file')] = s
    BY <1>4
  <2>3. Finds(rpc', file', SeenIn(file') \ {Len(file')})
    BY <1>4, <1>5, <1>6, <1>7
  <2>4. Begun(file', Len(file'))
    BY <1>3, <1>4
  <2>5. file' # <<>>
    <3>1. Len(file') # 0 /\ Len(<<>>) = 0
      BY <1>2, <1>4
    <3> QED
      BY <3>1
  <2>6. Declaring'
    BY <1>7, <1>8, <2>1, <2>2, <2>3, <2>4, <2>5 DEF Declaring, Seen
  <2> QED
    BY <2>6
<1>9. CASE s.is # "rpc"
  <2>1. \A k \in 1 .. Len(rest') : rest'[k] # Word("rpc")
    BY <1>1, <1>9, OthersDeclareNothing DEF NoRpc
  <2>2. Len(file') + 1 = Len(file) + 2
    BY <1>2, <1>4
  <2>3. Finds(rpc', file', SeenIn(file')) /\ Begun(file', Len(file') + 1)
    BY <1>5, <1>6, <1>7, <1>9, <2>2
  <2>4. Idle'
    BY <1>7, <2>1, <2>3 DEF Idle, Seen
  <2> QED
    BY <2>4
<1> QED
  BY <1>8, <1>9

(* Outside of declarations tokens mean nothing. *)
LEMMA IdleReads ==
  ASSUME TypeOK, Idle, ReadNone \/ ReadServiceName
  PROVE  Idle'
<1>1. rest # <<>> /\ rest' = Tail(rest) /\ file' = file /\ rpc' = rpc
  BY DEF ReadNone, ReadServiceName, Reads
<1>2. /\ Len(rest) \in Nat /\ Len(rest) >= 1 /\ Head(rest) = rest[1] /\ Len(rest') = Len(rest) - 1
      /\ \A k \in 1 .. Len(rest) - 1 : rest'[k] = rest[k + 1]
  BY <1>1, RestOfWords DEF TypeOK
<1>3. \A k \in 1 .. Len(rest') : rest'[k] # Word("rpc")
  <2> SUFFICES ASSUME NEW k \in 1 .. Len(rest') PROVE rest'[k] # Word("rpc")
    OBVIOUS
  <2>1. k \in 1 .. Len(rest) - 1 /\ k + 1 \in 1 .. Len(rest)
    BY <1>2
  <2> QED
    BY <1>2, <2>1 DEF Idle
<1>4. Head(rest) # Word("rpc")
  BY <1>2 DEF Idle
<1>5. current_token' \in {"None", "Service"}
  BY <1>4 DEF ReadNone, ReadServiceName, Token
<1>6. Begun(file', Len(file') + 1) /\ Finds(rpc', file', SeenIn(file'))
  BY <1>1 DEF Idle, Seen
<1> QED
  BY <1>3, <1>5, <1>6 DEF Idle, Seen

(* What is left after a token. *)
LEMMA ReadFirst ==
  ASSUME NEW q, IsSequence(q), NEW x, rest = <<x>> \o q
  PROVE  rest # <<>> /\ Token = x /\ Tail(rest) = q
BY FirstWord DEF Token

(* A parameter that begins with what was written goes on to do so. *)
LEMMA BeginsLonger ==
  ASSUME NEW words, IsSequence(words), NEW p, BeginsWith(words, p), NEW w
  PROVE  BeginsWith(Append(words, w), p)
<1> DEFINE longer == Append(words, w)
<1>1. /\ Len(words) \in Nat /\ Len(longer) = Len(words) + 1
      /\ \A k \in 1 .. Len(words) : longer[k] = words[k]
  BY AppendedWord DEF IsSequence
<1>0. IsSequence(longer)
  BY AppendedWord
<1> HIDE DEF longer
<1>2. BeginsWith(longer, p)
  <2>1. CASE p.stream
    <3>1. 1 \in 1 .. Len(words) /\ 2 \in 1 .. Len(words)
      BY <1>0, <1>1, <2>1 DEF BeginsWith
    <3> QED
      BY <1>0, <1>1, <2>1, <3>1 DEF BeginsWith
  <2>2. CASE ~p.stream
    <3>1. 1 \in 1 .. Len(words)
      BY <1>0, <1>1, <2>2 DEF BeginsWith
    <3> QED
      BY <1>0, <1>1, <2>2, <3>1 DEF BeginsWith
  <2> QED
    BY <2>1, <2>2
<1> QED
  BY <1>2 DEF longer

(* One token of a parameter: what is read and what is left.  Both parameters *)
(* of an rpc are read in this way.                                         *)
LEMMA ParameterToken ==
  ASSUME NEW words, NEW p, IsParameter(p), NEW then, NoRpc(then),
         InParameter(words, p, then)
  PROVE  /\ rest # <<>>
         /\ \/ /\ Token = Word("(") /\ words = <<>> /\ Tail(rest) = StreamTokens(p, then)
            \/ /\ Token = Stream /\ p.stream /\ words = <<>>
               /\ Tail(rest) = TypeTokens(p, then)
            \/ /\ Token = p.type /\ BeginsWith(Append(words, Token), p)
               /\ Tail(rest) = <<Word(")")>> \o then
            \/ Token = Word(")") /\ BeginsWith(words, p) /\ Tail(rest) = then
<1>1. /\ IsSequence(then) /\ IsSequence(<<Word(")")>> \o then)
      /\ IsSequence(TypeTokens(p, then)) /\ IsSequence(StreamTokens(p, then))
  BY ParametersLead DEF LeadsTo, NoRpc
<1>2. ASSUME rest = TypeTokens(p, then),
             \/ words = <<>> /\ ~p.stream
             \/ words = <<Stream>> /\ p.stream
      PROVE  /\ rest # <<>> /\ Token = p.type /\ BeginsWith(Append(words, Token), p)
             /\ Tail(rest) = <<Word(")")>> \o then
  <2>1. rest # <<>> /\ Token = p.type /\ Tail(rest) = <<Word(")")>> \o then
    BY <1>1, <1>2, ReadFirst DEF TypeTokens
  <2>2. BeginsWith(Append(words, p.type), p)
    <3>1. CASE words = <<>> /\ ~p.stream
      <4>1. \A w : Len(Append(<<>>, w)) = 1 /\ Append(<<>>, w)[1] = w
        OBVIOUS
      <4>2. \A w : IsSequence(Append(<<>>, w))
        BY NoWord, AppendedWord
      <4> QED
        BY <3>1, <4>1, <4>2 DEF BeginsWith
    <3>2. CASE words = <<Stream>> /\ p.stream
      <4>1. \A v, w : /\ Len(Append(<<v>>, w)) = 2 /\ Append(<<v>>, w)[1] = v
                      /\ Append(<<v>>, w)[2] = w
        OBVIOUS
      <4>2. \A v, w : IsSequence(Append(<<v>>, w))
        <5>1. \A v : <<v>> \in Seq({v})
          OBVIOUS
        <5> QED
          BY <5>1, IsSequenceOf, AppendedWord
      <4> QED
        BY <3>2, <4>1, <4>2 DEF BeginsWith
    <3> QED
      BY <1>2, <3>1, <3>2
  <2> QED
    BY <2>1, <2>2
<1>3. CASE words = <<>> /\ rest = ParameterTokens(p, then)
  BY <1>1, <1>3, ReadFirst DEF ParameterTokens
<1>4. CASE words = <<>> /\ rest = StreamTokens(p, then)
  <2>1. CASE p.stream
    <3>1. rest = <<Stream>> \o TypeTokens(p, then)
      BY <1>4, <2>1 DEF StreamTokens
    <3> QED
      BY <1>1, <1>4, <2>1, <3>1, ReadFirst
  <2>2. CASE ~p.stream
    <3>1. rest = TypeTokens(p, then)
      BY <1>1, <1>4, <2>2, NoWord DEF StreamTokens
    <3> QED
      BY <1>2, <1>4, <2>2, <3>1
  <2> QED
    BY <2>1, <2>2
<1>5. CASE words = <<Stream>> /\ p.stream /\ rest = TypeTokens(p, then)
  BY <1>2, <1>5
<1>6. CASE BeginsWith(words, p) /\ rest = <<Word(")")>> \o then
  BY <1>1, <1>6, ReadFirst
<1> QED
  BY <1>3, <1>4, <1>5, <1>6 DEF InParameter

(* From one token of a declaration to the next. *)
LEMMA DeclaringStep ==
  ASSUME TypeOK, Declaring, Next
  PROVE  Declaring' \/ Waiting'
<1> DEFINE s == file[Len(file)]
<1>1. /\ Len(file) \in Nat /\ Len(file) \in 1 .. Len(file)
      /\ s \in Statements /\ s.is = "rpc"
  BY FileIsSeq DEF Declaring
<1>2. /\ NoRpc(Closing(s.close)) /\ IsParameter(s.in) /\ IsParameter(s.out)
      /\ LeadsTo(OutputTokens(s), Closing(s.close)) /\ LeadsTo(NameTokens(s), Closing(s.close))
      /\ HasSemicolon(s) <=> Contains(Closing(s.close), Semicolon)
  BY <1>1, DeclarationLeads
<1>3. /\ NoRpc(OutputTokens(s)) /\ IsSequence(OutputTokens(s))
      /\ IsSequence(NameTokens(s)) /\ IsSequence(Closing(s.close))
      /\ IsSequence(ParameterTokens(s.in, OutputTokens(s)))
      /\ IsSequence(ParameterTokens(s.out, Closing(s.close)))
  BY <1>2, ParametersLead DEF LeadsTo, NoRpc
<1>4. Begun(file, Len(file)) /\ Finds(rpc, file, SeenIn(file) \ {Len(file)})
  BY DEF Declaring, Seen
<1>5. ASSUME file' = file, rpc' = rpc
      PROVE  /\ file'[Len(file')] = s /\ s.is = "rpc" /\ Begun(file', Len(file'))
             /\ Finds(rpc', file', Seen' \ {Len(file')})
  BY <1>1, <1>4, <1>5 DEF Seen
<1>6. CASE current_token = "None" /\ rest = RpcTokens(s)
  <2>1. rest # <<>> /\ Token = Word("rpc") /\ Tail(rest) = NameTokens(s)
    BY <1>3, <1>6, ReadFirst DEF RpcTokens
  <2>2. ReadNone
    BY <1>6, <2>1
       DEF Next, Finish, WriteStatement, ReadServiceName, ReadRpcName, ReadInputParameter,
           ReadOutputParameter, CloseRpc, Reads
  <2>3. /\ current_token' = "Rpc" /\ rest' = NameTokens(s) /\ file' = file /\ rpc' = rpc
    BY <2>1, <2>2, SyntaxDiffers DEF ReadNone, Reads
  <2>4. Declaring'
    BY <1>5, <2>3 DEF Declaring
  <2> QED
    BY <2>4
<1>7. CASE current_token = "Rpc" /\ rest = NameTokens(s)
  <2>1. /\ rest # <<>> /\ Token = Word(s.name)
        /\ Tail(rest) = ParameterTokens(s.in, OutputTokens(s))
    BY <1>3, <1>7, ReadFirst DEF NameTokens
  <2>2. ReadRpcName
    BY <1>7, <2>1
       DEF Next, Finish, WriteStatement, ReadNone, ReadServiceName, ReadInputParameter,
           ReadOutputParameter, CloseRpc, Reads
  <2>3. /\ current_token' = "RpcExpectingInputParameter" /\ file' = file /\ rpc' = rpc
        /\ rest' = ParameterTokens(s.in, OutputTokens(s)) /\ rpc_name' = Token[1]
        /\ input_param' = <<>> /\ out_param' = <<>>
    BY <2>1, <2>2 DEF ReadRpcName, Reads
  <2>4. rpc_name' = s.name
    BY <2>1, <2>3 DEF Word
  <2>5. InParameter(input_param, s.in, OutputTokens(s))'
    BY <1>5, <2>3 DEF InParameter
  <2>6. Declaring'
    BY <1>5, <2>3, <2>4, <2>5 DEF Declaring
  <2> QED
    BY <2>6
<1>8. CASE /\ current_token = "RpcExpectingInputParameter"
           /\ rpc_name = s.name /\ out_param = <<>>
           /\ InParameter(input_param, s.in, OutputTokens(s))
  <2>0. IsSequence(input_param) /\ \A w : Append(<<>>, w) = <<w>>
    BY DEF TypeOK
  <2>1. /\ rest # <<>>
        /\ \/ /\ Token = Word("(") /\ input_param = <<>>
              /\ Tail(rest) = StreamTokens(s.in, OutputTokens(s))
           \/ /\ Token = Stream /\ s.in.stream /\ input_param = <<>>
              /\ Tail(rest) = TypeTokens(s.in, OutputTokens(s))
           \/ /\ Token = s.in.type /\ BeginsWith(Append(input_param, Token), s.in)
              /\ Tail(rest) = <<Word(")")>> \o OutputTokens(s)
           \/ /\ Token = Word(")") /\ BeginsWith(input_param, s.in)
              /\ Tail(rest) = OutputTokens(s)
    BY <1>2, <1>3, <1>8, ParameterToken
  <2>2. ReadInputParameter
    BY <1>8, <2>1
       DEF Next, Finish, WriteStatement, ReadNone, ReadServiceName, ReadRpcName,
           ReadOutputParameter, CloseRpc, Reads
  <2>3. /\ file' = file /\ rpc' = rpc /\ rest' = Tail(rest)
        /\ rpc_name' = s.name /\ out_param' = <<>>
    BY <1>8, <2>2 DEF ReadInputParameter, Reads
  <2>4. ASSUME current_token' = "RpcExpectingInputParameter",
               InParameter(input_param, s.in, OutputTokens(s))'
        PROVE  Declaring'
    BY <1>5, <2>3, <2>4 DEF Declaring
  <2>5. CASE /\ Token = Word("(") /\ input_param = <<>>
             /\ Tail(rest) = StreamTokens(s.in, OutputTokens(s))
    <3>1. current_token' = current_token /\ input_param' = <<>>
      BY <2>2, <2>5, SyntaxDiffers DEF ReadInputParameter, Brackets
    <3>2. InParameter(input_param, s.in, OutputTokens(s))'
      BY <1>1, <2>3, <2>5, <3>1 DEF InParameter
    <3> QED
      BY <1>8, <2>4, <3>1, <3>2
  <2>6. CASE /\ Token = Stream /\ s.in.stream /\ input_param = <<>>
             /\ Tail(rest) = TypeTokens(s.in, OutputTokens(s))
    <3>1. current_token' = current_token /\ input_param' = <<Stream>>
      BY <2>0, <2>2, <2>6, SyntaxDiffers DEF ReadInputParameter, Brackets
    <3>2. InParameter(input_param, s.in, OutputTokens(s))'
      BY <1>1, <2>3, <2>6, <3>1 DEF InParameter
    <3> QED
      BY <1>8, <2>4, <3>1, <3>2
  <2>7. CASE /\ Token = s.in.type /\ BeginsWith(Append(input_param, Token), s.in)
             /\ Tail(rest) = <<Word(")")>> \o OutputTokens(s)
    <3>1. Token \notin Brackets
      BY <1>2, <2>7 DEF IsParameter, IsName, Brackets
    <3>2. current_token' = current_token /\ input_param' = Append(input_param, Token)
      BY <2>2, <3>1 DEF ReadInputParameter, Brackets
    <3>3. InParameter(input_param, s.in, OutputTokens(s))'
      BY <1>1, <2>3, <2>7, <3>2 DEF InParameter
    <3> QED
      BY <1>8, <2>4, <3>2, <3>3
  <2>8. CASE /\ Token = Word(")") /\ BeginsWith(input_param, s.in)
             /\ Tail(rest) = OutputTokens(s)
    <3>1. current_token' = "RpcExpectingOutputParameter" /\ input_param' = input_param
      BY <2>2, <2>8 DEF ReadInputParameter, Brackets
    <3>2. Declaring'
      BY <1>5, <2>3, <2>8, <3>1 DEF Declaring
    <3> QED
      BY <3>2
  <2> QED
    BY <2>1, <2>5, <2>6, <2>7, <2>8
<1>9. CASE /\ current_token = "RpcExpectingOutputParameter"
           /\ rpc_name = s.name /\ BeginsWith(input_param, s.in)
           /\ rest = OutputTokens(s) /\ out_param = <<>>
  <2>1. /\ rest # <<>> /\ Token = Returns
        /\ Tail(rest) = ParameterTokens(s.out, Closing(s.close))
    BY <1>3, <1>9, ReadFirst DEF OutputTokens
  <2>2. ReadOutputParameter
    BY <1>9, <2>1, SyntaxDiffers
       DEF Next, Finish, WriteStatement, ReadNone, ReadServiceName, ReadRpcName, ReadInputParameter,
           CloseRpc, Reads
  <2>3. /\ file' = file /\ rpc' = rpc /\ rest' = Tail(rest) /\ current_token' = current_token
        /\ rpc_name' = rpc_name /\ input_param' = input_param /\ out_param' = <<>>
    BY <1>9, <2>1, <2>2 DEF ReadOutputParameter, Reads
  <2>4. InParameter(out_param, s.out, Closing(s.close))'
    BY <1>1, <2>1, <2>3 DEF InParameter
  <2>5. Declaring'
    BY <1>5, <1>9, <2>3, <2>4 DEF Declaring
  <2> QED
    BY <2>5
<1>10. CASE /\ current_token = "RpcExpectingOutputParameter"
            /\ rpc_name = s.name /\ BeginsWith(input_param, s.in)
            /\ InParameter(out_param, s.out, Closing(s.close))
  <2>0. IsSequence(out_param) /\ \A w : Append(<<>>, w) = <<w>>
    BY DEF TypeOK
  <2>1. /\ rest # <<>>
        /\ \/ /\ Token = Word("(") /\ out_param = <<>>
              /\ Tail(rest) = StreamTokens(s.out, Closing(s.close))
           \/ /\ Token = Stream /\ s.out.stream /\ out_param = <<>>
              /\ Tail(rest) = TypeTokens(s.out, Closing(s.close))
           \/ /\ Token = s.out.type /\ BeginsWith(Append(out_param, Token), s.out)
              /\ Tail(rest) = <<Word(")")>> \o Closing(s.close)
           \/ /\ Token = Word(")") /\ BeginsWith(out_param, s.out)
              /\ Tail(rest) = Closing(s.close)
    BY <1>2, <1>10, ParameterToken
  <2>2. /\ s.out.type \notin Brackets \union {Returns} /\ s.out.type # Semicolon
        /\ Stream \notin Brackets \union {Returns} /\ Stream # Semicolon
        /\ Word("(") # Semicolon /\ Word(")") # Semicolon
    BY <1>2, SyntaxDiffers DEF IsParameter, IsName, Brackets
  <2>3. ReadOutputParameter
    BY <1>10, <2>1, <2>2
       DEF Next, Finish, WriteStatement, ReadNone, ReadServiceName, ReadRpcName, ReadInputParameter,
           CloseRpc, Reads
  <2>4. /\ file' = file /\ rpc' = rpc /\ rest' = Tail(rest) /\ current_token' = current_token
        /\ rpc_name' = rpc_name /\ input_param' = input_param
        /\ out_param' = IF Token \in Brackets \union {Returns} THEN out_param
                        ELSE Append(out_param, Token)
    BY <2>3 DEF ReadOutputParameter, Reads
  <2>5. ASSUME InParameter(out_param, s.out, Closing(s.close))' PROVE Declaring'
    BY <1>5, <1>10, <2>4, <2>5 DEF Declaring
  <2>6. CASE /\ Token = Word("(") /\ out_param = <<>>
             /\ Tail(rest) = StreamTokens(s.out, Closing(s.close))
    <3>1. InParameter(out_param, s.out, Closing(s.close))'
      BY <1>1, <2>4, <2>6 DEF InParameter, Brackets
    <3> QED
      BY <2>5, <3>1
  <2>7. CASE /\ Token = Stream /\ s.out.stream /\ out_param = <<>>
             /\ Tail(rest) = TypeTokens(s.out, Closing(s.close))
    <3>1. out_param' = <<Stream>>
      BY <2>0, <2>2, <2>4, <2>7
    <3>2. InParameter(out_param, s.out, Closing(s.close))'
      BY <1>1, <2>4, <2>7, <3>1 DEF InParameter
    <3> QED
      BY <2>5, <3>2
  <2>8. CASE /\ Token = s.out.type /\ BeginsWith(Append(out_param, Token), s.out)
             /\ Tail(rest) = <<Word(")")>> \o Closing(s.close)
    <3>1. out_param' = Append(out_param, Token)
      BY <2>2, <2>4, <2>8
    <3>2. InParameter(out_param, s.out, Closing(s.close))'
      BY <1>1, <2>4, <2>8, <3>1 DEF InParameter
    <3> QED
      BY <2>5, <3>2
  <2>9. CASE /\ Token = Word(")") /\ BeginsWith(out_param, s.out)
             /\ Tail(rest) = Closing(s.close)
    <3>1. out_param' = out_param /\ rest' = Closing(s.close)
      BY <2>4, <2>9 DEF Brackets
    <3>2. \A n \in Len(file) .. Len(file) - 1 : ~HasSemicolon(file[n])
      BY <1>1
    <3>3. Waits(Len(file))'
      BY <1>2, <1>5, <1>10, <2>4, <2>9, <3>1, <3>2 DEF Waits
    <3>4. \A k \in 2 .. Len(rest') : rest'[k] # Word("rpc")
      <4>1. \A k \in 1 .. Len(rest') : rest'[k] # Word("rpc")
        BY <1>2, <3>1 DEF NoRpc
      <4>2. Len(rest') \in Nat
        BY <1>3, <3>1 DEF IsSequence
      <4>3. \A k \in 2 .. Len(rest') : k \in 1 .. Len(rest')
        BY <4>2
      <4> QED
        BY <4>1, <4>3
    <3>5. Len(file) \in 1 .. Len(file')
      BY <1>1, <2>4
    <3>6. Waiting'
      BY <1>10, <2>4, <3>3, <3>4, <3>5 DEF Waiting
    <3> QED
      BY <3>6
  <2> QED
    BY <2>1, <2>6, <2>7, <2>8, <2>9
<1> QED
  BY <1>6, <1>7, <1>8, <1>9, <1>10 DEF Declaring

(* A statement is written after an rpc that is not closed. *)
LEMMA WaitingWrites ==
  ASSUME TypeOK, Waiting, WriteStatement
  PROVE  Waiting'
<1> DEFINE T == Statements
<1>1. PICK s \in Statements : file' = Append(file, s) /\ rest' = Tokens(s)
  BY DEF WriteStatement
<1>2. /\ rest = <<>> /\ rpc' = rpc /\ rpc_name' = rpc_name /\ current_token' = current_token
      /\ input_param' = input_param /\ out_param' = out_param
  BY DEF WriteStatement, paramVars
<1>3. PICK i \in 1 .. Len(file) : Waits(i)
  BY DEF Waiting
<1>4. /\ file \in Seq(T) /\ s \in T /\ Len(file) \in Nat /\ Len(file) \in 1 .. Len(file)
      /\ i \in 1 .. Len(file)
  BY FileIsSeq
<1>5. /\ Len(file') = Len(file) + 1 /\ file'[Len(file) + 1] = s
      /\ \A k \in 1 .. Len(file) : file'[k] = file[k]
      /\ \A k \in 1 .. Len(file) + 1 : Begun(file', k) <=> Begun(file, k)
  BY <1>1, <1>4, WrittenLater
<1>6. ~Contains(rest, Semicolon)
  <2>1. 1 .. Len(<<>>) = {}
    BY NoWord
  <2> QED
    BY <1>2, <2>1 DEF Contains
<1>7. \A n \in i .. Len(file) : ~HasSemicolon(file[n])
  <2>1. ~HasSemicolon(file[Len(file)]) /\ \A n \in i .. Len(file) - 1 : ~HasSemicolon(file[n])
    BY <1>3, <1>6 DEF Waits
  <2>2. \A n \in i .. Len(file) : n = Len(file) \/ n \in i .. Len(file) - 1
    BY <1>4
  <2> QED
    BY <2>1, <2>2
<1>8. SeenIn(file') \ {i} = SeenIn(file) \ {i}
  <2>1. file[i].is = "rpc" /\ Begun(file, i)
    BY <1>3 DEF Waits
  <2> QED
    BY <1>1, <1>4, <1>7, <2>1, SeenMeanwhile
<1>9. Finds(rpc', file', SeenIn(file') \ {i})
  <2>1. Finds(rpc, file, SeenIn(file) \ {i})
    BY <1>3 DEF Waits, Seen
  <2>2. SeenIn(file) \ {i} \subseteq 1 .. Len(file)
    BY <1>4, SeenArePlaces
  <2>3. Finds(rpc, file', SeenIn(file) \ {i})
    BY <1>1, <1>4, <2>1, <2>2, FoundBefore
  <2> QED
    BY <1>2, <1>8, <2>3
<1>10. i \in 1 .. Len(file') /\ file'[i] = file[i] /\ (Begun(file', i) <=> Begun(file, i))
  BY <1>4, <1>5
<1>11. \A n \in i .. Len(file') - 1 : ~HasSemicolon(file'[n])
  <2>1. \A n \in i .. Len(file') - 1 : n \in i .. Len(file) /\ n \in 1 .. Len(file)
    BY <1>4, <1>5
  <2> QED
    BY <1>5, <1>7, <2>1
<1>12. HasSemicolon(file'[Len(file')]) <=> Contains(rest', Semicolon)
  BY <1>1, <1>5 DEF HasSemicolon
<1>13. Waits(i)'
  BY <1>2, <1>3, <1>9, <1>10, <1>11, <1>12 DEF Waits, Seen
<1>14. \A k \in 2 .. Len(rest') : rest'[k] # Word("rpc")
  <2>1. CASE s.is = "rpc"
    <3>1. NoRpc(NameTokens(s)) /\ rest' = <<Word("rpc")>> \o NameTokens(s)
      BY <1>1, <2>1, DeclarationLeads DEF LeadsTo, RpcTokens
    <3> DEFINE q == NameTokens(s)
    <3>2. /\ Len(q) \in Nat /\ Len(rest') = Len(q) + 1
          /\ \A k \in 1 .. Len(q) : rest'[k + 1] = q[k] /\ q[k] # Word("rpc")
      BY <3>1, FirstWord DEF NoRpc, IsSequence
    <3> HIDE DEF q
    <3>3. ASSUME NEW k \in 2 .. Len(rest') PROVE rest'[k] # Word("rpc")
      <4>1. k - 1 \in 1 .. Len(q) /\ (k - 1) + 1 = k
        BY <3>2
      <4> QED
        BY <3>2, <4>1
    <3> QED
      BY <3>3
  <2>2. CASE s.is # "rpc"
    <3>1. Len(rest') \in Nat /\ \A k \in 1 .. Len(rest') : rest'[k] # Word("rpc")
      BY <1>1, <2>2, OthersDeclareNothing DEF NoRpc, IsSequence
    <3>2. \A k \in 2 .. Len(rest') : k \in 1 .. Len(rest')
      BY <3>1
    <3> QED
      BY <3>1, <3>2
  <2> QED
    BY <2>1, <2>2
<1>15. current_token' = "RpcExpectingOutputParameter"
  BY <1>2 DEF Waiting
<1> QED
  BY <1>10, <1>13, <1>14, <1>15 DEF Waiting

(* What is left of a statement while the reader waits. *)
LEMMA WaitingRest ==
  ASSUME TypeOK, Waiting, rest # <<>>, rest' = Tail(rest)
  PROVE  /\ Len(rest') \in Nat
         /\ \A k \in 1 .. Len(rest') : rest'[k] # Word("rpc")
         /\ Contains(rest, Semicolon) <=> Token = Semicolon \/ Contains(rest', Semicolon)
<1>1. /\ Len(rest) \in Nat /\ Len(rest) >= 1 /\ Len(rest') = Len(rest) - 1
      /\ \A k \in 1 .. Len(rest) - 1 : rest'[k] = rest[k + 1]
  BY RestOfWords DEF TypeOK
<1>2. ASSUME NEW k \in 1 .. Len(rest') PROVE rest'[k] # Word("rpc")
  <2>1. k \in 1 .. Len(rest) - 1 /\ k + 1 \in 2 .. Len(rest)
    BY <1>1
  <2> QED
    BY <1>1, <2>1 DEF Waiting
<1>3. Contains(rest, Semicolon) <=> Token = Semicolon \/ Contains(rest', Semicolon)
  BY SemicolonLater DEF TypeOK, Token
<1> QED
  BY <1>1, <1>2, <1>3

(* The tokens up to the next semicolon go into the output parameter. *)
LEMMA WaitingReads ==
  ASSUME TypeOK, Waiting, ReadOutputParameter
  PROVE  Waiting'
<1>1. /\ rest # <<>> /\ rest' = Tail(rest) /\ file' = file /\ rpc' = rpc /\ Token # Semicolon
      /\ rpc_name' = rpc_name /\ current_token' = current_token /\ input_param' = input_param
      /\ out_param' = out_param \/ out_param' = Append(out_param, Token)
  BY DEF ReadOutputParameter, Reads
<1>2. PICK i \in 1 .. Len(file) : Waits(i)
  BY DEF Waiting
<1>3. /\ Len(rest') \in Nat
      /\ \A k \in 1 .. Len(rest') : rest'[k] # Word("rpc")
      /\ Contains(rest, Semicolon) <=> Contains(rest', Semicolon)
  BY <1>1, WaitingRest
<1>4. \A k \in 2 .. Len(rest') : rest'[k] # Word("rpc")
  <2>1. \A k \in 2 .. Len(rest') : k \in 1 .. Len(rest')
    BY <1>3
  <2> QED
    BY <1>3, <2>1
<1>5. BeginsWith(out_param', file[i].out)
  BY <1>1, <1>2, BeginsLonger DEF Waits, TypeOK
<1>6. Waits(i)'
  <2>1. Begun(file', i) /\ Finds(rpc', file', SeenIn(file') \ {i})
    BY <1>1, <1>2 DEF Waits, Seen
  <2> QED
    BY <1>1, <1>2, <1>3, <1>5, <2>1 DEF Waits, Seen
<1>7. i \in 1 .. Len(file') /\ current_token' = "RpcExpectingOutputParameter"
  BY <1>1 DEF Waiting
<1> QED
  BY <1>4, <1>6, <1>7 DEF Waiting

(* The semicolon closes the rpc, which is found in its place. *)
LEMMA WaitingCloses ==
  ASSUME TypeOK, Waiting, CloseRpc
  PROVE  Idle'
<1> DEFINE last == Len(file)
<1>1. /\ rest # <<>> /\ rest' = Tail(rest) /\ file' = file /\ Token = Semicolon
      /\ current_token' = "None"
      /\ rpc' = IF rpc_name = "Ping" THEN rpc
                ELSE Append(rpc, [name |-> rpc_name, in |-> input_param, out |-> out_param])
  BY DEF CloseRpc, Reads
<1>2. PICK i \in 1 .. Len(file) : Waits(i)
  BY DEF Waiting
<1>3. /\ file \in Seq(Statements)
      /\ last \in Nat /\ last \in 1 .. last /\ i \in 1 .. last
  BY FileIsSeq
<1>4. \A k \in 1 .. Len(rest') : rest'[k] # Word("rpc")
  BY <1>1, WaitingRest
<1>5. HasSemicolon(file[last])
  <2>1. Contains(rest, Semicolon)
    BY <1>1, WaitingRest
  <2> QED
    BY <1>2, <2>1 DEF Waits
<1>6. /\ file[i].is = "rpc" /\ Begun(file, i) /\ rpc_name = file[i].name
      /\ \A n \in i .. last - 1 : ~HasSemicolon(file[n])
      /\ BeginsWith(input_param, file[i].in) /\ BeginsWith(out_param, file[i].out)
      /\ Finds(rpc, file, SeenIn(file) \ {i})
  BY <1>2 DEF Waits, Seen
<1> HIDE DEF last
<1>7. Begun(file, last + 1)
  <2>1. ASSUME NEW j \in 1 .. (last + 1) - 1, file[j].is = "rpc"
        PROVE  \E n \in j .. (last + 1) - 1 : HasSemicolon(file[n])
    <3>1. last \in j .. (last + 1) - 1
      BY <1>3
    <3> QED
      BY <1>5, <3>1
  <2> QED
    BY <2>1 DEF Begun
<1>8. \A j \in SeenIn(file) : j # i => j < i
  <2>1. ASSUME NEW j \in SeenIn(file), j # i, ~(j < i) PROVE FALSE
    <3>1. j \in 1 .. last /\ Begun(file, j)
      BY <2>1 DEF SeenIn, last
    <3>2. j \in i + 1 .. (last - 1) + 1 /\ last - 1 \in Nat
      BY <1>3, <2>1, <3>1
    <3>3. ~Begun(file, j)
      <4>1. i \in 1 .. Len(file)
        OBVIOUS
      <4> QED
        BY <1>3, <1>6, <3>2, <4>1, NothingBegunAfter
    <3> QED
      BY <3>1, <3>3
  <2> QED
    BY <2>1
<1>9. Finds(rpc', file, SeenIn(file))
  <2>1. CASE rpc_name = "Ping"
    <3>1. i \notin SeenIn(file)
      BY <1>6, <2>1 DEF SeenIn
    <3>2. SeenIn(file) \ {i} = SeenIn(file)
      BY <3>1
    <3> QED
      BY <1>1, <1>6, <2>1, <3>2
  <2>2. CASE rpc_name # "Ping"
    <3> DEFINE S == SeenIn(file) \ {i}
               r == [name |-> rpc_name, in |-> input_param, out |-> out_param]
    <3>1. i \in SeenIn(file)
      <4>1. last \in i .. Len(file) /\ i \in 1 .. Len(file)
        BY <1>3 DEF last
      <4> QED
        BY <1>5, <1>6, <2>2, <4>1 DEF SeenIn
    <3>2. S \union {i} = SeenIn(file)
      BY <3>1
    <3>3. IsFiniteSet(S) /\ S \subseteq Nat /\ \A j \in S : j < i
      <4>1. SeenIn(file) \subseteq Nat /\ IsFiniteSet(SeenIn(file))
        BY <1>3, SeenArePlaces
      <4> QED
        BY <1>8, <4>1, FS_Subset
    <3>4. /\ r.name = file[i].name /\ BeginsWith(r.in, file[i].in)
          /\ BeginsWith(r.out, file[i].out)
      BY <1>6
    <3>5. Finds(rpc, file, S) /\ IsSequence(rpc) /\ i \in Nat
      BY <1>6 DEF TypeOK
    <3>6. rpc' = Append(rpc, r)
      BY <1>1, <2>2
    <3> HIDE DEF S, r
    <3>7. Finds(Append(rpc, r), file, S \union {i})
      BY <3>3, <3>4, <3>5, FoundNext
    <3> QED
      BY <3>2, <3>6, <3>7
  <2> QED
    BY <2>1, <2>2
<1>10. Begun(file', Len(file') + 1) /\ Finds(rpc', file', SeenIn(file'))
  BY <1>1, <1>7, <1>9 DEF last
<1> QED
  BY <1>1, <1>4, <1>10 DEF Idle, Seen

(* Inside of a declaration there is a token to read. *)
LEMMA DeclaringHasRest ==
  ASSUME TypeOK, Declaring
  PROVE  rest # <<>>
<1> DEFINE s == file[Len(file)]
<1>1. s \in Statements /\ s.is = "rpc"
  BY FileIsSeq DEF Declaring
<1>2. /\ NoRpc(Closing(s.close)) /\ NoRpc(OutputTokens(s)) /\ IsSequence(NameTokens(s))
      /\ IsParameter(s.in) /\ IsParameter(s.out)
  BY <1>1, DeclarationLeads DEF LeadsTo, NoRpc
<1>3. /\ IsSequence(ParameterTokens(s.in, OutputTokens(s)))
      /\ IsSequence(ParameterTokens(s.out, Closing(s.close)))
  BY <1>2, ParametersLead DEF LeadsTo, NoRpc
<1>4. RpcTokens(s) # <<>> /\ NameTokens(s) # <<>> /\ OutputTokens(s) # <<>>
  BY <1>2, <1>3, FirstWord DEF RpcTokens, NameTokens, OutputTokens
<1>5. ASSUME InParameter(input_param, s.in, OutputTokens(s)) PROVE rest # <<>>
  BY <1>2, <1>5, ParameterToken
<1>6. ASSUME InParameter(out_param, s.out, Closing(s.close)) PROVE rest # <<>>
  BY <1>2, <1>6, ParameterToken
<1> QED
  BY <1>4, <1>5, <1>6 DEF Declaring

-----------------------------------------------------------------------------
(* The name of the service.                                                *)

(* A word put first moves the mentions, and may be one. *)
LEMMA MentionsFirst ==
  ASSUME NEW q, IsSequence(q), NEW x
  PROVE  /\ x # Service => Mentions(<<x>> \o q) = {k + 1 : k \in Mentions(q)}
         /\ x # Service /\ Mentions(q) = {} => Mentions(<<x>> \o q) = {}
<1> DEFINE longer == <<x>> \o q
<1>1. /\ Len(longer) = Len(q) + 1 /\ longer[1] = x /\ Len(q) \in Nat
      /\ \A k \in 1 .. Len(q) : longer[k + 1] = q[k]
  BY FirstWord DEF IsSequence
<1> HIDE DEF longer
<1>2. ASSUME NEW k \in Mentions(q) PROVE k + 1 \in Mentions(longer)
  <2>1. k \in 1 .. Len(q) /\ q[k] = Service
    BY DEF Mentions
  <2>2. k + 1 \in 1 .. Len(longer) /\ longer[k + 1] = Service
    BY <1>1, <2>1
  <2> QED
    BY <2>2 DEF Mentions
<1>3. ASSUME NEW k \in Mentions(longer), x # Service
      PROVE  k - 1 \in Mentions(q) /\ k = (k - 1) + 1
  <2>1. k \in 1 .. Len(longer) /\ longer[k] = Service
    BY DEF Mentions
  <2>2. k # 1
    BY <1>1, <1>3, <2>1
  <2>3. k - 1 \in 1 .. Len(q) /\ k = (k - 1) + 1
    BY <1>1, <2>1, <2>2
  <2>4. q[k - 1] = Service
    BY <1>1, <2>1, <2>3
  <2> QED
    BY <2>3, <2>4 DEF Mentions
<1>4. ASSUME x # Service PROVE Mentions(longer) = {k + 1 : k \in Mentions(q)}
  BY <1>2, <1>3, <1>4
<1>5. ASSUME x # Service, Mentions(q) = {} PROVE Mentions(longer) = {}
  BY <1>3, <1>5
<1> QED
  BY <1>4, <1>5 DEF longer

(* What is left after a word mentions what is mentioned behind it. *)
LEMMA MentionsLater ==
  ASSUME NEW q, IsSequence(q), q # <<>>, OneMention(q)
  PROVE  /\ OneMention(Tail(q))
         /\ Mentions(q) = {} => Mentions(Tail(q)) = {}
         /\ Head(q) = Service => /\ Mentions(q) = {1} /\ Mentions(Tail(q)) = {}
                                 /\ Tail(q) # <<>> /\ Head(Tail(q)) = q[2]
         /\ Head(q) \in {Word("rpc"), Semicolon} => Mentions(q) = {}
         /\ Head(q) # Service => \A k \in Mentions(q) : /\ k - 1 \in Mentions(Tail(q))
                                                       /\ Tail(q)[(k - 1) + 1] = q[k + 1]
<1> DEFINE t == Tail(q)
           h == Head(q)
<1>1. /\ Len(q) \in Nat /\ Len(q) >= 1 /\ h = q[1] /\ IsSequence(t) /\ Len(t) = Len(q) - 1
      /\ \A k \in 1 .. Len(q) - 1 : t[k] = q[k + 1]
  BY RestOfWords
<1>2. Len(t) # 0 => t # <<>> /\ Head(t) = t[1]
  BY <1>1, NoWord, RestOfWords
<1> HIDE DEF t, h
<1>3. ASSUME NEW k \in Mentions(t) PROVE k + 1 \in Mentions(q) /\ k \in 1 .. Len(q) - 1
  <2>1. k \in 1 .. Len(q) - 1 /\ t[k] = Service
    BY <1>1 DEF Mentions
  <2>2. k + 1 \in 1 .. Len(q) /\ q[k + 1] = Service
    BY <1>1, <2>1
  <2> QED
    BY <2>1, <2>2 DEF Mentions
<1>4. ASSUME NEW k \in Mentions(q), h # Service
      PROVE  k - 1 \in Mentions(t) /\ t[(k - 1) + 1] = q[k + 1]
  <2>1. k \in 1 .. Len(q) /\ q[k] = Service /\ k < Len(q)
    BY DEF Mentions, OneMention
  <2>2. k # 1
    BY <1>1, <1>4, <2>1
  <2>3. k - 1 \in 1 .. Len(q) - 1 /\ k = (k - 1) + 1 /\ k \in 1 .. Len(q) - 1
    BY <1>1, <2>1, <2>2
  <2>4. t[k - 1] = Service /\ t[k] = q[k + 1]
    BY <1>1, <2>1, <2>3
  <2> QED
    BY <1>1, <2>3, <2>4 DEF Mentions
<1>5. OneMention(t)
  <2> SUFFICES ASSUME NEW k \in Mentions(t)
               PROVE  /\ Mentions(t) = {k} /\ k < Len(t)
                      /\ \A m \in 1 .. k : t[m] \notin {Word("rpc"), Semicolon}
    BY DEF OneMention
  <2>1. k + 1 \in Mentions(q) /\ k \in 1 .. Len(q) - 1
    BY <1>3
  <2>2. /\ Mentions(q) = {k + 1} /\ k + 1 < Len(q)
        /\ \A m \in 1 .. k + 1 : q[m] \notin {Word("rpc"), Semicolon}
    BY <2>1 DEF OneMention
  <2>3. \A n \in Mentions(t) : n + 1 = k + 1 /\ n \in 1 .. Len(q) - 1
    BY <1>3, <2>2
  <2>4. Mentions(t) = {k}
    <3>1. \A n \in Mentions(t) : n = k
      BY <2>1, <2>3
    <3> QED
      BY <3>1
  <2>5. ASSUME NEW m \in 1 .. k PROVE t[m] \notin {Word("rpc"), Semicolon}
    <3>1. m + 1 \in 1 .. k + 1 /\ m \in 1 .. Len(q) - 1
      BY <1>1, <2>1
    <3> QED
      BY <1>1, <2>2, <3>1
  <2>6. k < Len(t)
    BY <1>1, <2>1, <2>2
  <2> QED
    BY <2>4, <2>5, <2>6
<1>6. ASSUME Mentions(q) = {} PROVE Mentions(t) = {}
  BY <1>3, <1>6
<1>7. ASSUME h = Service
      PROVE  Mentions(q) = {1} /\ Mentions(t) = {} /\ t # <<>> /\ Head(t) = q[2]
  <2>1. 1 \in Mentions(q)
    <3>1. q[1] = Service /\ 1 \in 1 .. Len(q)
      BY <1>1, <1>7
    <3> QED
      BY <3>1 DEF Mentions
  <2>2. Mentions(q) = {1} /\ 1 < Len(q)
    BY <2>1 DEF OneMention
  <2>3. Mentions(t) = {}
    <3> SUFFICES ASSUME NEW k \in Mentions(t) PROVE FALSE
      OBVIOUS
    <3>1. k + 1 = 1 /\ k \in 1 .. Len(q) - 1
      BY <1>3, <2>2
    <3> QED
      BY <1>1, <3>1
  <2>4. Len(t) # 0 /\ t[1] = q[2]
    BY <1>1, <2>2
  <2> QED
    BY <1>2, <2>2, <2>3, <2>4
<1>8. ASSUME h \in {Word("rpc"), Semicolon} PROVE Mentions(q) = {}
  <2> SUFFICES ASSUME NEW k \in Mentions(q) PROVE FALSE
    OBVIOUS
  <2>1. k \in 1 .. Len(q) /\ \A m \in 1 .. k : q[m] \notin {Word("rpc"), Semicolon}
    BY DEF Mentions, OneMention
  <2>2. 1 \in 1 .. k
    BY <1>1, <2>1
  <2> QED
    BY <1>1, <1>8, <2>1, <2>2
<1> QED
  BY <1>4, <1>5, <1>6, <1>7, <1>8 DEF t, h

(* A parameter mentions no service if what follows it mentions none. *)
LEMMA ParametersMentionNone ==
  ASSUME NEW p, IsParameter(p), NEW then, NoRpc(then), Mentions(then) = {}
  PROVE  Mentions(ParameterTokens(p, then)) = {}
<1>0. /\ p.type # Service /\ Word("(") # Service /\ Word(")") # Service /\ Stream # Service
  BY WordsDiffer DEF IsParameter, IsName, IsWord, Service, Stream
<1>1. /\ IsSequence(then) /\ IsSequence(<<Word(")")>> \o then)
      /\ IsSequence(TypeTokens(p, then)) /\ IsSequence(StreamTokens(p, then))
  BY ParametersLead DEF LeadsTo, NoRpc
<1>2. Mentions(<<Word(")")>> \o then) = {}
  BY <1>0, <1>1, MentionsFirst
<1>3. Mentions(TypeTokens(p, then)) = {}
  BY <1>0, <1>1, <1>2, MentionsFirst DEF TypeTokens
<1>4. Mentions(StreamTokens(p, then)) = {}
  <2>1. CASE p.stream
    BY <1>0, <1>1, <1>3, <2>1, MentionsFirst DEF StreamTokens
  <2>2. CASE ~p.stream
    BY <1>1, <1>3, <2>2, NoWord DEF StreamTokens
  <2> QED
    BY <2>1, <2>2
<1> QED
  BY <1>0, <1>1, <1>4, MentionsFirst DEF ParameterTokens

(* The tokens of an rpc mention none. *)
LEMMA RpcMentionsNone ==
  ASSUME NEW s \in Statements, s.is = "rpc"
  PROVE  Mentions(Tokens(s)) = {}
<1>1. /\ s.close \in {"semicolon", "braces", "option"}
      /\ IsName(Word(s.name)) /\ IsParameter(s.in) /\ IsParameter(s.out)
  BY StatementsAssumption DEF StatementsAssumption
<1>2. /\ NoRpc(Closing(s.close)) /\ NoRpc(OutputTokens(s)) /\ NoRpc(NameTokens(s))
      /\ Tokens(s) = RpcTokens(s)
  BY DeclarationLeads DEF LeadsTo
<1>3. Mentions(Closing(s.close)) = {}
  <2>1. Closing(s.close) \in Seq(OtherWords)
    BY <1>1, ClosingsDeclareNothing
  <2>2. \A k \in 1 .. Len(Closing(s.close)) : Closing(s.close)[k] \in OtherWords
    BY <2>1
  <2> QED
    BY <2>2, OtherWordsDeclareNothing DEF Mentions
<1>4. Returns # Service /\ Word(s.name) # Service /\ Word("rpc") # Service
  BY <1>1, WordsDiffer DEF IsName, IsWord, Returns, Service
<1>5. /\ IsSequence(ParameterTokens(s.in, OutputTokens(s)))
      /\ IsSequence(ParameterTokens(s.out, Closing(s.close)))
  BY <1>1, <1>2, ParametersLead DEF LeadsTo, NoRpc
<1>6. Mentions(OutputTokens(s)) = {}
  <2>1. Mentions(ParameterTokens(s.out, Closing(s.close))) = {}
    BY <1>1, <1>2, <1>3, ParametersMentionNone
  <2> QED
    BY <1>4, <1>5, <2>1, MentionsFirst DEF OutputTokens
<1>7. Mentions(NameTokens(s)) = {}
  <2>1. Mentions(ParameterTokens(s.in, OutputTokens(s))) = {}
    BY <1>1, <1>2, <1>6, ParametersMentionNone
  <2> QED
    BY <1>4, <1>5, <2>1, MentionsFirst DEF NameTokens
<1>8. IsSequence(NameTokens(s))
  BY <1>2 DEF NoRpc
<1> QED
  BY <1>2, <1>4, <1>7, <1>8, MentionsFirst DEF RpcTokens

(* What the tokens of a statement give as a name is what it is said to give. *)
GivesNames(s) ==
  /\ OneMention(Tokens(s))
  /\ \A k \in Mentions(Tokens(s)) : Tokens(s)[k + 1] \in Names(s)
  /\ Mentions(Tokens(s)) = {} => Names(s) = {}
  /\ None \notin Names(s)

LEMMA NamesAreGiven ==
  ASSUME NEW s \in Statements
  PROVE  GivesNames(s)
<1>0. \A w : Word(w) # None
  <2>1. \A w : Len(<<w>>) = 1 /\ Len(<<>>) = 0
    OBVIOUS
  <2> QED
    BY <2>1 DEF Word, None
<1>1. CASE s.is = "rpc"
  <2>1. Names(s) = {}
    BY <1>1 DEF Names
  <2> QED
    BY <1>1, <2>1, RpcMentionsNone DEF GivesNames, OneMention
<1>2. CASE s.is = "service"
  <2> DEFINE t == Tokens(s)
  <2>1. /\ IsSequence(t) /\ Len(t) = 3
        /\ t[1] = Service /\ t[2] = Word(s.name) /\ t[3] = Word("{")
        /\ IsName(Word(s.name))
    BY <1>2, ServiceWords
  <2>2. Names(s) = {Word(s.name)}
    BY <1>2 DEF Names
  <2> HIDE DEF t
  <2>3. t[2] # Service /\ t[3] # Service /\ t[1] \notin {Word("rpc"), Semicolon}
    BY <2>1, WordsDiffer DEF IsName, IsWord, Service, Semicolon
  <2>4. Mentions(t) = {1}
    <3>1. 1 .. 3 = {1, 2, 3}
      OBVIOUS
    <3>2. \A k \in 1 .. Len(t) : t[k] = Service <=> k = 1
      BY <2>1, <2>3, <3>1
    <3>3. 1 \in 1 .. Len(t)
      <4>1. 1 \in 1 .. 3
        OBVIOUS
      <4>2. Len(t) = 3
        BY <2>1
      <4> QED
        BY <4>1, <4>2
    <3> QED
      BY <3>2, <3>3 DEF Mentions
  <2>5. OneMention(t)
    <3>1. \A m \in 1 .. 1 : m = 1
      OBVIOUS
    <3>2. 1 < Len(t)
      <4>1. Len(t) = 3
        BY <2>1
      <4> QED
        BY <4>1
    <3>3. \A m \in 1 .. 1 : t[m] \notin {Word("rpc"), Semicolon}
      BY <2>3, <3>1
    <3>4. \A k \in Mentions(t) : k = 1
      BY <2>4
    <3> QED
      BY <2>4, <3>2, <3>3, <3>4 DEF OneMention
  <2>6. \A k \in Mentions(t) : t[k + 1] \in Names(s)
    <3>1. 1 + 1 = 2
      OBVIOUS
    <3> QED
      BY <2>1, <2>2, <2>4, <3>1
  <2> QED
    BY <1>0, <2>2, <2>4, <2>5, <2>6 DEF GivesNames, t
<1>3. CASE s.is = "field"
  <2> DEFINE t == Tokens(s)
  <2>1. /\ IsSequence(t) /\ Len(t) = 5 /\ s.name # "rpc"
        /\ t[1] = Word("string") /\ t[2] = Word(s.name) /\ t[3] = Word("=")
        /\ t[4] = Word("1") /\ t[5] = Semicolon
    BY <1>3, FieldWords
  <2>2. Names(s) = IF s.name = "service" THEN {Word("=")} ELSE {}
    BY <1>3 DEF Names
  <2> HIDE DEF t
  <2>3. /\ t[1] # Service /\ t[3] # Service /\ t[4] # Service /\ t[5] # Service
        /\ t[1] \notin {Word("rpc"), Semicolon}
    BY <2>1, WordsDiffer DEF Service, Semicolon
  <2>4. CASE s.name = "service"
    <3>1. t[2] = Service /\ t[2] \notin {Word("rpc"), Semicolon}
      BY <2>1, <2>4, WordsDiffer DEF Service, Semicolon
    <3>2. Mentions(t) = {2}
      BY <2>1, <2>3, <3>1 DEF Mentions
    <3>3. \A m \in 1 .. 2 : t[m] \notin {Word("rpc"), Semicolon}
      BY <2>3, <3>1
    <3>4. OneMention(t)
      BY <2>1, <3>2, <3>3 DEF OneMention
    <3>5. \A k \in Mentions(t) : t[k + 1] \in Names(s)
      BY <2>1, <2>2, <2>4, <3>2
    <3> QED
      BY <1>0, <2>2, <2>4, <3>2, <3>4, <3>5 DEF GivesNames, t
  <2>5. CASE s.name # "service"
    <3>1. t[2] # Service
      BY <2>1, <2>5, WordsDiffer DEF Service
    <3>2. Mentions(t) = {}
      BY <2>1, <2>3, <3>1 DEF Mentions
    <3> QED
      BY <2>2, <2>5, <3>2 DEF GivesNames, OneMention, t
  <2> QED
    BY <2>4, <2>5
<1>4. CASE s.is = "comment" /\ s.ownLine
  <2>1. Tokens(s) = <<>>
    BY <1>4 DEF Tokens, CommentTokens
  <2>2. Mentions(Tokens(s)) = {}
    BY <2>1, NoWord DEF Mentions
  <2>3. Names(s) = {}
    BY <1>4 DEF Names
  <2> QED
    BY <2>2, <2>3 DEF GivesNames, OneMention
<1>5. CASE s.is = "comment" /\ ~s.ownLine
  <2> DEFINE q == s.words
             t == <<Word("//")>> \o q
  <2>1. q \in Seq(Seq(STRING) \ {<<>>, Word("rpc")}) /\ OneMention(q)
    BY <1>5, StatementsAssumption DEF StatementsAssumption
  <2>2. Tokens(s) = t /\ Names(s) = {q[k + 1] : k \in Mentions(q)}
    BY <1>5 DEF Tokens, CommentTokens, Names
  <2>3. IsSequence(q)
    BY <2>1, IsSequenceOf
  <2>4. Word("//") # Service /\ Word("//") \notin {Word("rpc"), Semicolon}
    BY WordsDiffer DEF Service, Semicolon
  <2>5. /\ Len(t) = Len(q) + 1 /\ t[1] = Word("//") /\ Len(q) \in Nat
        /\ \A k \in 1 .. Len(q) : t[k + 1] = q[k]
    BY <2>3, FirstWord DEF IsSequence
  <2>6. /\ Mentions(t) = {k + 1 : k \in Mentions(q)}
        /\ Mentions(q) = {} => Mentions(t) = {}
    BY <2>3, <2>4, MentionsFirst
  <2>7. \A k \in 1 .. Len(q) : q[k] # <<>>
    BY <2>1
  <2> HIDE DEF q, t
  <2>8. ASSUME NEW k \in Mentions(q)
        PROVE  /\ k \in 1 .. Len(q) /\ k < Len(q) /\ Mentions(q) = {k} /\ Mentions(t) = {k + 1}
               /\ t[(k + 1) + 1] = q[k + 1] /\ q[k + 1] # <<>>
               /\ \A m \in 1 .. k + 1 : t[m] \notin {Word("rpc"), Semicolon}
    <3>1. /\ k \in 1 .. Len(q) /\ k < Len(q) /\ Mentions(q) = {k}
          /\ \A m \in 1 .. k : q[m] \notin {Word("rpc"), Semicolon}
      BY <2>1 DEF Mentions, OneMention
    <3>2. k + 1 \in 1 .. Len(q)
      BY <2>5, <3>1
    <3>3. t[(k + 1) + 1] = q[k + 1] /\ q[k + 1] # <<>>
      BY <2>5, <2>7, <3>2
    <3>4. ASSUME NEW m \in 1 .. k + 1 PROVE t[m] \notin {Word("rpc"), Semicolon}
      <4>1. CASE m = 1
        BY <2>4, <2>5, <4>1
      <4>2. CASE m # 1
        <5>1. m - 1 \in 1 .. k /\ m - 1 \in 1 .. Len(q) /\ (m - 1) + 1 = m
          BY <3>1, <4>2, <2>5
        <5>2. t[m] = q[m - 1]
          BY <2>5, <5>1
        <5> QED
          BY <3>1, <5>1, <5>2
      <4> QED
        BY <4>1, <4>2
    <3>5. Mentions(t) = {k + 1}
      BY <2>6, <3>1
    <3> QED
      BY <3>1, <3>3, <3>4, <3>5
  <2>9. CASE Mentions(q) = {}
    <3>1. Mentions(t) = {} /\ Names(s) = {}
      BY <2>2, <2>6, <2>9
    <3> QED
      BY <2>2, <3>1 DEF GivesNames, OneMention
  <2>10. CASE Mentions(q) # {}
    <3>1. PICK k \in Mentions(q) : TRUE
      BY <2>10
    <3>2. /\ k \in 1 .. Len(q) /\ k < Len(q) /\ Mentions(q) = {k} /\ Mentions(t) = {k + 1}
          /\ t[(k + 1) + 1] = q[k + 1] /\ q[k + 1] # <<>>
          /\ \A m \in 1 .. k + 1 : t[m] \notin {Word("rpc"), Semicolon}
      BY <2>8, <3>1
    <3>3. Names(s) = {q[k + 1]}
      BY <2>2, <3>2
    <3>4. k + 1 < Len(t)
      BY <2>5, <3>2
    <3>5. OneMention(t)
      BY <3>2, <3>4 DEF OneMention
    <3>6. \A n \in Mentions(t) : t[n + 1] \in Names(s)
      BY <3>2, <3>3
    <3> QED
      BY <2>2, <3>2, <3>3, <3>5, <3>6 DEF GivesNames, None
  <2> QED
    BY <2>9, <2>10
<1> QED
  BY <1>1, <1>2, <1>3, <1>4, <1>5, StatementsAssumption DEF StatementsAssumption

(* A statement that gives no name, or is not begun, leaves the name as it is. *)
LEMMA NamedStill ==
  ASSUME NEW f \in Seq(Statements), NEW s \in Statements,
         Names(s) = {} \/ ~Begun(f, Len(f) + 1), NEW name
  PROVE  IsNamed(Append(f, s), name) <=> IsNamed(f, name)
<1> DEFINE g == Append(f, s)
<1>1. /\ Len(f) \in Nat /\ Len(g) = Len(f) + 1 /\ g[Len(f) + 1] = s
      /\ \A i \in 1 .. Len(f) : g[i] = f[i]
      /\ \A i \in 1 .. Len(f) + 1 : Begun(g, i) <=> Begun(f, i)
  BY WrittenLater
<1> HIDE DEF g
<1>2. ASSUME NEW i \in 1 .. Len(f) PROVE i \in NamingIn(g) <=> i \in NamingIn(f)
  <2>1. i \in 1 .. Len(g) /\ i \in 1 .. Len(f) + 1
    BY <1>1
  <2> QED
    BY <1>1, <2>1 DEF NamingIn
<1>3. Len(f) + 1 \notin NamingIn(g)
  <2>1. Len(f) + 1 \in 1 .. Len(f) + 1
    BY <1>1
  <2> QED
    BY <1>1, <2>1 DEF NamingIn
<1>4. NamingIn(g) \subseteq 1 .. Len(f) + 1 /\ NamingIn(f) \subseteq 1 .. Len(f)
  BY <1>1 DEF NamingIn
<1>5. \A i \in 1 .. Len(f) + 1 : i = Len(f) + 1 \/ i \in 1 .. Len(f)
  BY <1>1
<1>6. NamingIn(g) = NamingIn(f)
  BY <1>2, <1>3, <1>4, <1>5, Zenon
<1>7. \A i \in NamingIn(f) : g[i] = f[i]
  BY <1>1, <1>4
<1>8. IsNamed(g, name) <=> IsNamed(f, name)
  BY <1>6, <1>7 DEF IsNamed
<1> QED
  BY <1>8 DEF g

(* One that is begun and gives a name is the last of those that do. *)
LEMMA NamedNext ==
  ASSUME NEW f \in Seq(Statements), NEW s \in Statements,
         Begun(f, Len(f) + 1), NEW name \in Names(s)
  PROVE  IsNamed(Append(f, s), name)
<1> DEFINE g == Append(f, s)
<1>1. /\ Len(f) \in Nat /\ Len(g) = Len(f) + 1 /\ g[Len(f) + 1] = s
      /\ \A i \in 1 .. Len(f) + 1 : Begun(g, i) <=> Begun(f, i)
  BY WrittenLater
<1> HIDE DEF g
<1>2. Len(f) + 1 \in 1 .. Len(g) /\ Len(f) + 1 \in 1 .. Len(f) + 1
  BY <1>1
<1>3. Len(f) + 1 \in NamingIn(g)
  BY <1>1, <1>2 DEF NamingIn
<1>4. \A j \in NamingIn(g) : j <= Len(f) + 1
  BY <1>1 DEF NamingIn
<1>5. IsNamed(g, name)
  BY <1>1, <1>3, <1>4 DEF IsNamed
<1> QED
  BY <1>5 DEF g

(* A statement that is written, where nothing is open and where an rpc is. *)
LEMMA NameWrites ==
  ASSUME TypeOK, NameDue, Idle \/ Waiting, WriteStatement
  PROVE  NameDue'
<1>1. PICK s \in Statements : file' = Append(file, s) /\ rest' = Tokens(s)
  BY DEF WriteStatement
<1>2. /\ rest = <<>> /\ UNCHANGED <<current_token, service_name>>
  BY DEF WriteStatement
<1>3. file \in Seq(Statements) /\ GivesNames(s)
  BY FileIsSeq, NamesAreGiven
<1>4. Mentions(rest) = {}
  BY <1>2, NoWord DEF Mentions
<1>5. current_token # "Service" /\ IsNamed(file, service_name)
  BY <1>2, <1>4 DEF NameDue
<1>6. CASE Idle
  <2>1. current_token = "None" /\ Begun(file, Len(file) + 1)
    BY <1>5, <1>6 DEF Idle
  <2>2. CASE Mentions(Tokens(s)) = {}
    <3>1. Names(s) = {}
      BY <1>3, <2>2 DEF GivesNames
    <3>2. IsNamed(file', service_name)
      BY <1>1, <1>3, <1>5, <3>1, NamedStill
    <3> QED
      BY <1>1, <1>2, <1>3, <2>1, <2>2, <3>2 DEF NameDue, GivesNames
  <2>3. CASE Mentions(Tokens(s)) # {}
    <3>1. PICK k \in Mentions(Tokens(s)) : TRUE
      BY <2>3
    <3>2. IsNamed(file', Tokens(s)[k + 1])
      BY <1>1, <1>3, <2>1, NamedNext DEF GivesNames
    <3> QED
      BY <1>1, <1>2, <1>3, <2>1, <3>2 DEF NameDue, GivesNames
  <2> QED
    BY <2>2, <2>3
<1>7. CASE Waiting
  <2>1. PICK i \in 1 .. Len(file) : Waits(i)
    BY <1>7 DEF Waiting
  <2>2. Len(file) \in Nat
    BY FileIsSeq
  <2>3. \A n \in i .. Len(file) : ~HasSemicolon(file[n])
    <3>1. ~Contains(rest, Semicolon)
      <4>1. 1 .. Len(<<>>) = {}
        BY NoWord
      <4> QED
        BY <1>2, <4>1 DEF Contains
    <3>2. ~HasSemicolon(file[Len(file)]) /\ \A n \in i .. Len(file) - 1 : ~HasSemicolon(file[n])
      BY <2>1, <3>1 DEF Waits
    <3>3. \A n \in i .. Len(file) : n = Len(file) \/ n \in i .. Len(file) - 1
      BY <2>2
    <3> QED
      BY <3>2, <3>3
  <2>4. ~Begun(file, Len(file) + 1)
    <3>1. Len(file) + 1 \in i + 1 .. Len(file) + 1 /\ file[i].is = "rpc"
      BY <2>1, <2>2 DEF Waits
    <3> QED
      BY <1>3, <2>2, <2>3, <3>1, NothingBegunAfter
  <2>5. IsNamed(file', service_name)
    BY <1>1, <1>3, <1>5, <2>4, NamedStill
  <2>6. current_token \notin {"None", "Service"}
    BY <1>7 DEF Waiting
  <2> QED
    BY <1>1, <1>2, <1>3, <2>5, <2>6 DEF NameDue, GivesNames
<1> QED
  BY <1>6, <1>7

(* The name comes nearer with each token, and no declaration changes it. *)
LEMMA NameStep ==
  ASSUME TypeOK, NameDue, Idle \/ Declaring \/ Waiting, Next
  PROVE  NameDue'
<1>1. CASE WriteStatement
  <2>1. ~Declaring
    BY <1>1, DeclaringHasRest DEF WriteStatement
  <2> QED
    BY <1>1, <2>1, NameWrites
<1>2. CASE Finish
  BY <1>2 DEF Finish, NameDue
<1>3. ASSUME rest # <<>>, rest' = Tail(rest), file' = file
      PROVE  /\ OneMention(rest')
             /\ Mentions(rest) = {} => Mentions(rest') = {}
             /\ Token = Service => /\ Mentions(rest) = {1} /\ Mentions(rest') = {}
                                   /\ rest' # <<>> /\ Head(rest') = rest[2]
             /\ Token \in {Word("rpc"), Semicolon} => Mentions(rest) = {}
             /\ Token # Service => \A k \in Mentions(rest) : /\ k - 1 \in Mentions(rest')
                                                            /\ rest'[(k - 1) + 1] = rest[k + 1]
  BY <1>3, MentionsLater DEF TypeOK, NameDue, Token
<1>4. CASE ReadNone
  <2>0. /\ rest # <<>> /\ rest' = Tail(rest) /\ file' = file /\ current_token = "None"
        /\ service_name' = service_name
    BY <1>4 DEF ReadNone, Reads
  <2>1. CASE Token = Service
    <3>1. /\ Mentions(rest) = {1} /\ Mentions(rest') = {} /\ rest' # <<>>
          /\ Head(rest') = rest[2] /\ OneMention(rest')
      BY <1>3, <2>0, <2>1
    <3>2. IsNamed(file, rest[1 + 1])
      BY <2>0, <3>1 DEF NameDue
    <3>3. current_token' = "Service"
      BY <1>4, <2>1 DEF ReadNone
    <3> QED
      BY <2>0, <3>1, <3>2, <3>3 DEF NameDue
  <2>2. CASE Token = Word("rpc")
    <3>1. current_token' = "Rpc" /\ Mentions(rest) = {} /\ OneMention(rest')
      BY <1>3, <1>4, <2>0, <2>2, SyntaxDiffers DEF ReadNone
    <3>2. IsNamed(file, service_name)
      BY <2>0, <3>1 DEF NameDue
    <3> QED
      BY <2>0, <3>1, <3>2 DEF NameDue
  <2>3. CASE Token # Service /\ Token # Word("rpc")
    <3>1. current_token' = "None" /\ OneMention(rest')
      BY <1>3, <1>4, <2>0, <2>3 DEF ReadNone
    <3>2. CASE Mentions(rest) = {}
      BY <1>3, <2>0, <3>1, <3>2 DEF NameDue
    <3>3. CASE Mentions(rest) # {}
      <4>1. PICK k \in Mentions(rest) : IsNamed(file, rest[k + 1])
        BY <2>0, <3>3 DEF NameDue
      <4>2. k - 1 \in Mentions(rest') /\ rest'[(k - 1) + 1] = rest[k + 1]
        BY <1>3, <2>0, <2>3
      <4>3. \E n \in Mentions(rest') : IsNamed(file, rest'[n + 1])
        BY <4>1, <4>2
      <4> QED
        BY <2>0, <3>1, <4>3 DEF NameDue
    <3> QED
      BY <3>2, <3>3
  <2> QED
    BY <2>1, <2>2, <2>3
<1>5. CASE ReadServiceName
  <2>1. /\ rest # <<>> /\ rest' = Tail(rest) /\ file' = file /\ current_token = "Service"
        /\ current_token' = "None" /\ service_name' = Head(rest)
    BY <1>5 DEF ReadServiceName, Reads, Token
  <2>2. Mentions(rest) = {} /\ IsNamed(file, Head(rest))
    BY <2>1 DEF NameDue
  <2>3. Mentions(rest') = {} /\ OneMention(rest')
    BY <1>3, <2>1, <2>2
  <2> QED
    BY <2>1, <2>2, <2>3 DEF NameDue
<1>6. CASE ReadRpcName \/ ReadInputParameter \/ ReadOutputParameter
  <2>1. /\ rest # <<>> /\ rest' = Tail(rest) /\ file' = file /\ service_name' = service_name
        /\ current_token \notin {"None", "Service"} /\ current_token' \notin {"None", "Service"}
    BY <1>6 DEF ReadRpcName, ReadInputParameter, ReadOutputParameter, Reads
  <2>2. OneMention(rest') /\ IsNamed(file, service_name)
    BY <1>3, <2>1 DEF NameDue
  <2> QED
    BY <2>1, <2>2 DEF NameDue
<1>7. CASE CloseRpc
  <2>1. /\ rest # <<>> /\ rest' = Tail(rest) /\ file' = file /\ service_name' = service_name
        /\ current_token = "RpcExpectingOutputParameter" /\ current_token' = "None"
        /\ Token = Semicolon
    BY <1>7 DEF CloseRpc, Reads
  <2>2. Mentions(rest') = {} /\ OneMention(rest') /\ IsNamed(file, service_name)
    BY <1>3, <2>1 DEF NameDue
  <2> QED
    BY <2>1, <2>2 DEF NameDue
<1> QED
  BY <1>1, <1>2, <1>4, <1>5, <1>6, <1>7 DEF Next

(* Nothing is read or written after the end. *)
LEMMA EndedStep ==
  ASSUME Ended, Next
  PROVE  Ended'
<1>1. CASE Finish
  BY <1>1 DEF Finish, Ended
<1>2. CASE WriteStatement
  BY <1>2 DEF WriteStatement, Ended
<1>3. CASE rest # <<>> /\ result' = result
  BY <1>3 DEF Ended
<1> QED
  BY <1>1, <1>2, <1>3
     DEF Next, ReadNone, ReadServiceName, ReadRpcName, ReadInputParameter,
         ReadOutputParameter, CloseRpc, Reads

-----------------------------------------------------------------------------
(* The invariant, and what follows from it.                                *)

(* The name of a service is still to come when its word was read: nothing  *)
(* is written in between.                                                  *)
LEMMA IdleStep ==
  ASSUME NameDue, TypeOK, Idle, Next
  PROVE  Idle' \/ Declaring'
<1>1. CASE WriteStatement
  <2>1. current_token = "None"
    BY <1>1 DEF WriteStatement, NameDue, Idle
  <2> QED
    BY <1>1, <2>1, IdleWrites
<1>2. CASE ReadNone \/ ReadServiceName
  BY <1>2, IdleReads
<1>3. CASE Finish
  BY <1>3 DEF Finish, Idle, Seen
<1> QED
  BY <1>1, <1>2, <1>3
     DEF Next, Idle, ReadRpcName, ReadInputParameter, ReadOutputParameter, CloseRpc, Reads

(* An open rpc stays open until a semicolon closes it. *)
LEMMA WaitingStep ==
  ASSUME TypeOK, Waiting, Next
  PROVE  Idle' \/ Waiting'
<1>1. WriteStatement \/ ReadOutputParameter \/ CloseRpc \/ Finish
  BY DEF Waiting, Next, ReadNone, ReadServiceName, ReadRpcName, ReadInputParameter, Reads
<1>2. CASE Finish
  BY <1>2 DEF Finish, paramVars, Waiting, Waits, Seen
<1> QED
  BY <1>1, <1>2, WaitingWrites, WaitingReads, WaitingCloses

(* The invariant is kept by every step. *)
LEMMA IInvStep == IInv /\ [Next]_vars => IInv'
<1> SUFFICES ASSUME IInv, [Next]_vars PROVE IInv'
  OBVIOUS
<1>1. TypeOK /\ TypeOK'
  BY TypeStep DEF IInv
<1>2. CASE Next
  <2>1. NameDue' /\ Ended'
    BY <1>2, NameStep, EndedStep DEF IInv
  <2> QED
    BY <1>1, <1>2, <2>1, IdleStep, DeclaringStep, WaitingStep DEF IInv
<1>3. CASE UNCHANGED vars
  <2> USE <1>3 DEF vars, paramVars, Seen
  <2>1. ASSUME Idle PROVE Idle'
    BY <2>1 DEF Idle
  <2>2. ASSUME Declaring PROVE Declaring'
    BY <2>2 DEF Declaring, InParameter
  <2>3. ASSUME Waiting PROVE Waiting'
    BY <2>3 DEF Waiting, Waits
  <2>4. NameDue' /\ Ended'
    BY DEF IInv, NameDue, Ended
  <2> QED
    BY <1>1, <2>1, <2>2, <2>3, <2>4 DEF IInv
<1> QED
  BY <1>2, <1>3

(***************************************************************************)
(* The reader is where the statements say: between declarations, inside of *)
(* one and at the token that its parameters tell, or behind one that is    *)
(* not closed, and has found what was to be found so far.                  *)
(***************************************************************************)
THEOREM ReaderFollowsStatements == Spec => []IInv
BY InitIInv, IInvStep, PTL DEF Spec

(***************************************************************************)
(* Wherever a file ends, the service has the name that the last mention    *)
(* between its declarations gives it: a declaration of a service is lost   *)
(* behind an rpc that braces close, and a field with the name "service",   *)
(* or a comment after code with this word, replaces the declared name.     *)
(* The macro panics for the files without a mention, and for no other.     *)
(***************************************************************************)
THEOREM ServiceIsLastMentioned == Spec => []ServiceIsFound
<1>1. ASSUME IInv, rest = <<>> PROVE IsNamed(file, service_name)
  <2>1. Mentions(rest) = {}
    BY <1>1, NoWord DEF Mentions
  <2> QED
    BY <1>1, <2>1 DEF IInv, NameDue
<1>2. ASSUME IInv, rest = <<>> PROVE service_name = None <=> NamingIn(file) = {}
  <2>1. ASSUME NEW i \in NamingIn(file) PROVE None \notin Names(file[i])
    <3>1. file[i] \in Statements
      BY <1>2, FileIsSeq DEF IInv, NamingIn
    <3> QED
      BY <3>1, NamesAreGiven DEF GivesNames
  <2> QED
    BY <1>1, <1>2, <2>1 DEF IsNamed
<1>3. IInv => ServiceIsFound
  BY <1>1, <1>2 DEF IInv, Ended, ServiceIsFound
<1> QED
  BY <1>3, ReaderFollowsStatements, PTL

(* When all tokens are read, all rpcs that are seen are found. *)
LEMMA FoundAtRest ==
  ASSUME IInv, rest = <<>>
  PROVE  Finds(rpc, file, Seen)
<1>1. CASE Idle
  BY <1>1 DEF Idle
<1>2. CASE Declaring
  BY <1>2, DeclaringHasRest DEF IInv
<1>3. CASE Waiting
  <2>1. PICK i \in 1 .. Len(file) : Waits(i)
    BY <1>3 DEF Waiting
  <2>2. ~Contains(rest, Semicolon)
    <3>1. 1 .. Len(<<>>) = {}
      BY NoWord
    <3> QED
      BY <3>1 DEF Contains
  <2>3. ~\E n \in i .. Len(file) : HasSemicolon(file[n])
    <3>1. \A n \in i .. Len(file) : n = Len(file) \/ n \in i .. Len(file) - 1
      BY FileIsSeq DEF IInv
    <3> QED
      BY <2>1, <2>2, <3>1 DEF Waits
  <2>4. i \notin Seen
    BY <2>3 DEF Seen, SeenIn
  <2>5. Seen \ {i} = Seen
    BY <2>4
  <2> QED
    BY <2>1, <2>5 DEF Waits
<1> QED
  BY <1>1, <1>2, <1>3 DEF IInv

(***************************************************************************)
(* Every rpc of a file is found, in its place, unless it follows one that  *)
(* braces close and no semicolon has come since.                           *)
(***************************************************************************)
THEOREM RpcsAreFound == Spec => []NothingElseIsLost
<1>1. IInv => NothingElseIsLost
  BY FoundAtRest DEF NothingElseIsLost, Finds
<1> QED
  BY <1>1, ReaderFollowsStatements, PTL

(***************************************************************************)
(* ParamType::parse reads what was declared from all the tokens that were  *)
(* taken for the type: those that follow change nothing.                   *)
(***************************************************************************)
LEMMA ParsedFromItsWords ==
  ASSUME NEW words, NEW p, IsParameter(p), BeginsWith(words, p)
  PROVE  Parse(words) = IF p.type = Empty THEN [stream |-> FALSE, name |-> "()"]
                        ELSE [stream |-> p.stream, name |-> Last(p.type)]
<1> DEFINE place == IF p.stream THEN 2 ELSE 1
           IsPlace(n) == words[n] # Stream /\ \A m \in 1 .. n - 1 : words[m] = Stream
<1>1. p.type # Stream /\ p.stream \in BOOLEAN
  BY DEF IsParameter, IsName
<1>2. Len(words) \in Nat /\ DOMAIN words = 1 .. Len(words)
  BY DEF BeginsWith, IsSequence
<1>3. /\ place \in DOMAIN words /\ place \in 1 .. Len(words) /\ words[place] = p.type
      /\ \A m \in 1 .. place - 1 : words[m] = Stream
  <2>1. CASE p.stream
    <3>1. Len(words) >= 2 /\ words[1] = Stream /\ words[2] = p.type /\ place = 2
      BY <2>1 DEF BeginsWith
    <3>2. \A m \in 1 .. 2 - 1 : m = 1
      OBVIOUS
    <3> QED
      BY <1>2, <3>1, <3>2
  <2>2. CASE ~p.stream
    <3>1. Len(words) >= 1 /\ words[1] = p.type /\ place = 1
      BY <2>2 DEF BeginsWith
    <3> QED
      BY <1>2, <3>1
  <2> QED
    BY <2>1, <2>2
<1>4. place \in Nat /\ (place > 1) = p.stream
  BY <1>1
<1> HIDE DEF place
<1>5. ASSUME NEW n \in DOMAIN words, IsPlace(n) PROVE n = place
  <2>1. n \in 1 .. Len(words)
    BY <1>2
  <2>2. ~(place < n)
    <3>1. ASSUME place < n PROVE FALSE
      <4>1. place \in 1 .. n - 1
        BY <1>3, <2>1, <3>1
      <4> QED
        BY <1>1, <1>3, <1>5, <4>1
    <3> QED
      BY <3>1
  <2>3. ~(n < place)
    <3>1. ASSUME n < place PROVE FALSE
      <4>1. n \in 1 .. place - 1
        BY <1>4, <2>1, <3>1
      <4> QED
        BY <1>3, <1>5, <4>1
    <3> QED
      BY <3>1
  <2> QED
    BY <1>4, <2>1, <2>2, <2>3
<1>6. IsPlace(place)
  BY <1>1, <1>3
<1>7. NamePlace(words) = place
  <2>1. \E n \in DOMAIN words : IsPlace(n)
    BY <1>3, <1>6
  <2>2. NamePlace(words) \in DOMAIN words /\ IsPlace(NamePlace(words))
    BY <2>1 DEF NamePlace
  <2> QED
    BY <1>5, <2>2
<1>8. ~\A n \in DOMAIN words : words[n] = Stream
  BY <1>1, <1>3
<1> QED
  BY <1>3, <1>4, <1>7, <1>8 DEF Parse

(* This is the declared one, unless that is a stream of empty messages. *)
LEMMA ParsedAsDeclared ==
  ASSUME NEW words, NEW p, IsParameter(p), Understood(p), BeginsWith(words, p)
  PROVE  Parse(words) = Declared(p)
<1>1. Parse(words) = IF p.type = Empty THEN [stream |-> FALSE, name |-> "()"]
                     ELSE [stream |-> p.stream, name |-> Last(p.type)]
  BY ParsedFromItsWords
<1>2. CASE p.type = Empty
  <2>1. p.stream = FALSE
    BY <1>2 DEF Understood, IsParameter
  <2> QED
    BY <1>1, <1>2, <2>1 DEF Declared
<1>3. CASE p.type # Empty
  BY <1>1, <1>3 DEF Declared
<1> QED
  BY <1>2, <1>3

(* Something is found in any case. *)
LEMMA ParsedIsParameter ==
  ASSUME NEW words, NEW p, IsParameter(p), BeginsWith(words, p)
  PROVE  Parse(words) # NoParam
<1>1. Parse(words) = IF p.type = Empty THEN [stream |-> FALSE, name |-> "()"]
                     ELSE [stream |-> p.stream, name |-> Last(p.type)]
  BY ParsedFromItsWords
<1>2. Parse(words).name # ""
  <2>1. CASE p.type = Empty
    BY <1>1, <2>1
  <2>2. CASE p.type # Empty
    <3>1. Parse(words).name = Last(p.type)
      BY <1>1, <2>2
    <3>2. Last(p.type) # ""
      BY DEF IsParameter
    <3> QED
      BY <3>1, <3>2
  <2> QED
    BY <2>1, <2>2
<1>3. NoParam.name = ""
  BY DEF NoParam
<1> QED
  BY <1>2, <1>3

(* What was found of rpc i when all tokens are read. *)
LEMMA FoundAsDeclared ==
  ASSUME IInv, rest = <<>>, NEW i \in Seen
  PROVE  LET found == rpc[Place(Seen, i)]
         IN  /\ IsParameter(file[i].in) /\ IsParameter(file[i].out)
             /\ Parse(found.in) # NoParam /\ Parse(found.out) # NoParam
             /\ Understood(file[i].in)  => Parse(found.in)  = Declared(file[i].in)
             /\ Understood(file[i].out) => Parse(found.out) = Declared(file[i].out)
<1>1. i \in 1 .. Len(file) /\ file[i].is = "rpc"
  BY DEF Seen, SeenIn
<1>2. IsParameter(file[i].in) /\ IsParameter(file[i].out)
  BY <1>1, FileIsSeq, DeclarationLeads DEF IInv
<1>3. /\ BeginsWith(rpc[Place(Seen, i)].in, file[i].in)
      /\ BeginsWith(rpc[Place(Seen, i)].out, file[i].out)
  BY FoundAtRest DEF Finds
<1> QED
  BY <1>2, <1>3, ParsedAsDeclared, ParsedIsParameter

(***************************************************************************)
(* What is found of an rpc are the types that were declared for it, also   *)
(* when it took the tokens of other rpcs for its own.                      *)
(***************************************************************************)
THEOREM DeclarationsAreFound == Spec => []FoundIsDeclared
<1>1. IInv => FoundIsDeclared
  BY FoundAsDeclared DEF FoundIsDeclared
<1> QED
  BY <1>1, ReaderFollowsStatements, PTL

=============================================================================
