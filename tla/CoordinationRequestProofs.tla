--------------------- MODULE CoordinationRequestProofs ---------------------
(***************************************************************************)
(* Proofs about CoordinationRequest for any number of clients, flights,    *)
(* commands, facts and calls served at once.                               *)
(*                                                                         *)
(* Every change of the table rewrites some rows in place, and a submission *)
(* also adds one.  The first part is about such a rewriting, the second    *)
(* about the actions, the third about the revision.                        *)
(***************************************************************************)
EXTENDS CoordinationRequest, FiniteSetTheorems, FunctionTheorems, TLAPS

\* A row is decided only if accepted or rejected, and carries an expiry fact
\* only if it expired: a pending row carries neither.
Coherent(r) ==
    /\ r.decision # None => r.state \in {"accepted", "rejected"}
    /\ r.expiry # <<>> => r.state = "expired"

\* The rows rs are typed and coherent, and their commands distinct.
Table(rs) ==
    /\ rs \subseteq Request /\ IsFiniteSet(rs)
    /\ \A r \in rs : Coherent(r)
    /\ \A r, s \in rs : r.flight = s.flight /\ r.kind = s.kind
                           /\ r.state = "pending" /\ s.state = "pending" => r = s
    /\ \A r, s \in rs : r.cmd = s.cmd => r = s
    /\ \A r, s \in rs : r.decision # None => r.decision # s.cmd
    /\ \A r, s \in rs : r.decision # None /\ r.decision = s.decision => r = s

\* What a client's goroutine holds.
Held == [op : {"idle", "submit", "authorize", "decide"}, cmd : Commands \cup {None},
         flight : Flights \cup {None}, kind : Kinds \cup {None}, to : Recipients,
         request : Commands \cup {None}, expected : Nat]
HeldOK(v) ==
    /\ v \in Held
    /\ v.op = "submit" => v.cmd \in Commands /\ v.flight \in Flights /\ v.kind \in Kinds
    /\ v.op \in {"authorize", "decide"} => v.cmd \in Commands

\* The inductive invariant.
IInv ==
    /\ Table(requests)
    /\ tracking \in [Flights -> Recipients]
    /\ facts \subseteq OwnershipFact /\ IsFiniteSet(facts)
    /\ call \in [Clients -> Held]
    /\ \A c \in Clients : HeldOK(call[c])

-----------------------------------------------------------------------------
(* Rewriting rows *)

\* h rewrites the rows rs: it keeps what identifies a row, makes none pending
\* and decides none.
Rewriting(h, rs) ==
    /\ h \in [rs -> Request]
    /\ \A r \in rs :
          /\ h[r].cmd = r.cmd /\ h[r].flight = r.flight /\ h[r].kind = r.kind
          /\ h[r].state = "pending" => r.state = "pending"
          /\ h[r].decision = r.decision
          /\ Coherent(h[r])

Rewritten(h, rs) == {h[r] : r \in rs}

\* The rewritten table is as good as the old one, and has as many rows.
LEMMA RewritingKeeps ==
    ASSUME NEW rs, Table(rs), NEW h, Rewriting(h, rs)
    PROVE  Table(Rewritten(h, rs)) /\ Cardinality(Rewritten(h, rs)) = Cardinality(rs)
  <1> DEFINE new == Rewritten(h, rs)
  <1>1. \A x \in new : \E r \in rs : x = h[r]
    BY DEF Rewritten
  <1>2. \A r \in rs : h[r] \in new
    BY DEF Rewritten
  <1>3. h \in Bijection(rs, new)
    <2>1. h \in [rs -> new]
      BY <1>2 DEF Rewriting
    <2>2. \A r, s \in rs : h[r] = h[s] => r = s
      BY DEF Rewriting, Table
    <2> QED  BY <1>1, <2>1, <2>2, Fun_IsBij
  <1>4. IsFiniteSet(new) /\ Cardinality(new) = Cardinality(rs)
    BY <1>3, FS_Bijection DEF ExistsBijection, Table
  <1>5. new \subseteq Request /\ \A x \in new : Coherent(x)
    BY <1>1 DEF Rewriting
  <1>6. ASSUME NEW x \in new, NEW y \in new
        PROVE  /\ x.flight = y.flight /\ x.kind = y.kind /\ x.state = "pending" /\ y.state = "pending" => x = y
               /\ x.cmd = y.cmd => x = y
               /\ x.decision # None => x.decision # y.cmd
               /\ x.decision # None /\ x.decision = y.decision => x = y
    <2>1. PICK r \in rs : x = h[r]
      BY <1>1
    <2>2. PICK s \in rs : y = h[s]
      BY <1>1
    <2> QED  BY <2>1, <2>2 DEF Rewriting, Table
  <1> HIDE DEF new
  <1>7. Table(new)
    BY <1>4, <1>5, <1>6 DEF Table
  <1> QED  BY <1>4, <1>7 DEF new

\* A table may take one more row, with an unused command, if no pending row is
\* of its flight and kind.
LEMMA InsertKeeps ==
    ASSUME NEW rs, Table(rs), NEW n \in Request, n.decision = None, n.expiry = <<>>,
           \A r \in rs : n.cmd # r.cmd /\ n.cmd # r.decision,
           \A r \in rs : ~(r.flight = n.flight /\ r.kind = n.kind /\ r.state = "pending")
    PROVE  Table(rs \cup {n}) /\ Cardinality(rs \cup {n}) = Cardinality(rs) + 1
  <1>1. n \notin rs
    OBVIOUS
  <1>2. IsFiniteSet(rs \cup {n}) /\ Cardinality(rs \cup {n}) = Cardinality(rs) + 1
    BY <1>1, FS_AddElement DEF Table
  <1>3. Coherent(n) /\ rs \cup {n} \subseteq Request
    BY DEF Coherent, Table
  <1>4. ASSUME NEW x \in rs \cup {n}, NEW y \in rs \cup {n}
        PROVE  /\ x.flight = y.flight /\ x.kind = y.kind /\ x.state = "pending" /\ y.state = "pending" => x = y
               /\ x.cmd = y.cmd => x = y
               /\ x.decision # None => x.decision # y.cmd
               /\ x.decision # None /\ x.decision = y.decision => x = y
    BY DEF Table
  <1>5. \A x \in rs \cup {n} : Coherent(x)
    BY <1>3 DEF Table
  <1> QED  BY <1>2, <1>3, <1>4, <1>5 DEF Table

\* A decision: one pending row gets a state and an unused command.
LEMMA DecisionKeeps ==
    ASSUME NEW rs, Table(rs), NEW r \in rs, r.state = "pending", NEW d \in Request, NEW cmd \in Commands,
           d.cmd = r.cmd, d.flight = r.flight, d.kind = r.kind, d.expiry = r.expiry, d.decision = cmd,
           d.state \in {"accepted", "rejected"}, RequestAssumption,
           \A s \in rs : cmd # s.cmd /\ cmd # s.decision
    PROVE  Table((rs \ {r}) \cup {d}) /\ Cardinality((rs \ {r}) \cup {d}) = Cardinality(rs)
  <1>1. cmd # None
    BY DEF RequestAssumption
  <1>2. d \notin rs
    BY <1>1
  <1>3. /\ IsFiniteSet((rs \ {r}) \cup {d})
        /\ Cardinality((rs \ {r}) \cup {d}) = Cardinality(rs)
    <2>1. /\ IsFiniteSet(rs \ {r}) /\ Cardinality(rs \ {r}) = Cardinality(rs) - 1
          /\ Cardinality(rs) \in Nat
      BY FS_RemoveElement, FS_CardinalityType DEF Table
    <2>2. d \notin rs \ {r}
      BY <1>2
    <2>3. /\ IsFiniteSet((rs \ {r}) \cup {d})
          /\ Cardinality((rs \ {r}) \cup {d}) = Cardinality(rs \ {r}) + 1
      BY <2>1, <2>2, FS_AddElement
    <2> QED  BY <2>1, <2>3
  <1>4. ASSUME NEW x \in (rs \ {r}) \cup {d} PROVE x \in Request /\ Coherent(x)
    <2>1. Coherent(r) /\ Coherent(d)
      BY <1>1 DEF Table, Coherent
    <2> QED  BY <2>1 DEF Table
  <1>5. ASSUME NEW x \in (rs \ {r}) \cup {d}, NEW y \in (rs \ {r}) \cup {d}
        PROVE  /\ x.flight = y.flight /\ x.kind = y.kind /\ x.state = "pending" /\ y.state = "pending" => x = y
               /\ x.cmd = y.cmd => x = y
               /\ x.decision # None => x.decision # y.cmd
               /\ x.decision # None /\ x.decision = y.decision => x = y
    <2>1. CASE x = d /\ y = d
      BY <1>1, <2>1
    <2>2. CASE x = d /\ y \in rs \ {r}
      BY <1>1, <2>2 DEF Table
    <2>3. CASE x \in rs \ {r} /\ y = d
      BY <1>1, <2>3 DEF Table
    <2>4. CASE x \in rs \ {r} /\ y \in rs \ {r}
      BY <2>4 DEF Table
    <2> QED  BY <2>1, <2>2, <2>3, <2>4
  <1> QED  BY <1>3, <1>4, <1>5 DEF Table

-----------------------------------------------------------------------------
(* The parts of the revision *)

Decided(rs) == {r \in rs : r.decision # None}
Transferred(rs) == UNION {{<<r.flight, n>> : n \in r.transfers} : r \in rs}
Expiries(rs) == {r.expiry : r \in rs} \ {<<>>}
Cleared(rs) == {r.clearance : r \in rs} \ {None}

\* The image of a finite set under a function is finite.
LEMMA ImageFinite ==
    ASSUME NEW S, IsFiniteSet(S), NEW f, DOMAIN f = S, NEW T, T = {f[x] : x \in S},
           f \in [S -> T]
    PROVE  IsFiniteSet(T)
  <1>1. f \in Surjection(S, T)
    BY Fun_IsSurj
  <1> QED  BY <1>1, FS_Surjection

\* Each part of a finite table is finite, so that the revision is a number.
LEMMA PartsFinite ==
    ASSUME NEW rs, IsFiniteSet(rs), rs \subseteq Request, RequestAssumption
    PROVE  /\ IsFiniteSet(Decided(rs)) /\ IsFiniteSet(Transferred(rs))
           /\ IsFiniteSet(Expiries(rs)) /\ IsFiniteSet(Cleared(rs))
           /\ Cardinality(rs) \in Nat /\ Cardinality(Decided(rs)) \in Nat
           /\ Cardinality(Transferred(rs)) \in Nat /\ Cardinality(Expiries(rs)) \in Nat
           /\ Cardinality(Cleared(rs)) \in Nat
           /\ Revision(rs) = Cardinality(rs) + Cardinality(Decided(rs)) + Cardinality(Transferred(rs))
                               + Cardinality(Expiries(rs)) + Cardinality(Cleared(rs))
  <1>1. IsFiniteSet(Decided(rs))
    BY FS_Subset DEF Decided
  <1>2. IsFiniteSet({r.expiry : r \in rs})
    <2> DEFINE f == [r \in rs |-> r.expiry]
    <2>1. f \in [rs -> {f[r] : r \in rs}] /\ {f[r] : r \in rs} = {r.expiry : r \in rs}
      OBVIOUS
    <2> QED  BY <2>1, ImageFinite
  <1>3. IsFiniteSet(Expiries(rs))
    BY <1>2, FS_Difference DEF Expiries
  <1>4. IsFiniteSet({r.clearance : r \in rs})
    <2> DEFINE f == [r \in rs |-> r.clearance]
    <2>1. f \in [rs -> {f[r] : r \in rs}] /\ {f[r] : r \in rs} = {r.clearance : r \in rs}
      OBVIOUS
    <2> QED  BY <2>1, ImageFinite
  <1>5. IsFiniteSet(Cleared(rs))
    BY <1>4, FS_Difference DEF Cleared
  <1>6. IsFiniteSet({r.flight : r \in rs})
    <2> DEFINE f == [r \in rs |-> r.flight]
    <2>1. f \in [rs -> {f[r] : r \in rs}] /\ {f[r] : r \in rs} = {r.flight : r \in rs}
      OBVIOUS
    <2> QED  BY <2>1, ImageFinite
  <1>7. IsFiniteSet({r.flight : r \in rs} \X (1..MaxFacts))
    <2>1. IsFiniteSet(1..MaxFacts)
      BY FS_Interval DEF RequestAssumption
    <2> QED  BY <1>6, <2>1, FS_Product
  <1>8. Transferred(rs) \subseteq {r.flight : r \in rs} \X (1..MaxFacts)
    BY DEF Transferred, Request
  <1>9. IsFiniteSet(Transferred(rs))
    BY <1>7, <1>8, FS_Subset
  <1>10. /\ Cardinality(rs) \in Nat /\ Cardinality(Decided(rs)) \in Nat
         /\ Cardinality(Transferred(rs)) \in Nat /\ Cardinality(Expiries(rs)) \in Nat
         /\ Cardinality(Cleared(rs)) \in Nat
    BY <1>1, <1>3, <1>5, <1>9, FS_CardinalityType
  <1>11. Revision(rs) = Cardinality(rs) + Cardinality(Decided(rs)) + Cardinality(Transferred(rs))
                          + Cardinality(Expiries(rs)) + Cardinality(Cleared(rs))
    BY DEF Revision, Decided, Transferred, Expiries, Cleared
  <1> QED  BY <1>1, <1>3, <1>5, <1>9, <1>10, <1>11

\* A rewriting leaves the number of decisions alone, and every set of facts
\* that it copies.
LEMMA RewritingCounts ==
    ASSUME NEW rs, Table(rs), NEW h, Rewriting(h, rs)
    PROVE  /\ Cardinality(Decided(Rewritten(h, rs))) = Cardinality(Decided(rs))
           /\ (\A r \in rs : h[r].transfers = r.transfers) => Transferred(Rewritten(h, rs)) = Transferred(rs)
           /\ (\A r \in rs : h[r].expiry = r.expiry) => Expiries(Rewritten(h, rs)) = Expiries(rs)
           /\ (\A r \in rs : h[r].clearance = r.clearance) => Cleared(Rewritten(h, rs)) = Cleared(rs)
  <1>1. Cardinality(Decided(Rewritten(h, rs))) = Cardinality(Decided(rs))
    <2> DEFINE D == Decided(rs)
               hd == [r \in D |-> h[r]]
    <2>1. D \subseteq rs /\ IsFiniteSet(D)
      BY FS_Subset DEF Decided, Table
    <2>2. Table(D)
      BY <2>1 DEF Table
    <2>3. Rewriting(hd, D)
      BY <2>1 DEF Rewriting
    <2>4. Rewritten(hd, D) = Decided(Rewritten(h, rs))
      BY DEF Rewritten, Decided, Rewriting
    <2> QED  BY <2>2, <2>3, <2>4, RewritingKeeps
  <1>2. ASSUME \A r \in rs : h[r].transfers = r.transfers
        PROVE  Transferred(Rewritten(h, rs)) = Transferred(rs)
    BY <1>2 DEF Transferred, Rewritten, Rewriting
  <1>3. ASSUME \A r \in rs : h[r].expiry = r.expiry
        PROVE  Expiries(Rewritten(h, rs)) = Expiries(rs)
    BY <1>3 DEF Expiries, Rewritten, Rewriting
  <1>4. ASSUME \A r \in rs : h[r].clearance = r.clearance
        PROVE  Cleared(Rewritten(h, rs)) = Cleared(rs)
    BY <1>4 DEF Cleared, Rewritten, Rewriting
  <1> QED  BY <1>1, <1>2, <1>3, <1>4

\* The parts of a good table are numbers.
LEMMA Counts ==
    ASSUME RequestAssumption, NEW rs, Table(rs)
    PROVE  /\ Cardinality(rs) \in Nat /\ Cardinality(Decided(rs)) \in Nat
           /\ Cardinality(Transferred(rs)) \in Nat /\ Cardinality(Expiries(rs)) \in Nat
           /\ Cardinality(Cleared(rs)) \in Nat
           /\ IsFiniteSet(Decided(rs)) /\ IsFiniteSet(Transferred(rs))
           /\ IsFiniteSet(Expiries(rs)) /\ IsFiniteSet(Cleared(rs))
  BY PartsFinite DEF Table

\* One part grows by one and the others stay.
LEMMA OneMore ==
    ASSUME RequestAssumption, NEW rs, Table(rs), NEW new, Table(new),
           Cardinality(new) + Cardinality(Decided(new)) + Cardinality(Transferred(new))
             + Cardinality(Expiries(new)) + Cardinality(Cleared(new))
           = Cardinality(rs) + Cardinality(Decided(rs)) + Cardinality(Transferred(rs))
             + Cardinality(Expiries(rs)) + Cardinality(Cleared(rs)) + 1
    PROVE  Revision(new) = Revision(rs) + 1
  <1>1. /\ rs \subseteq Request /\ IsFiniteSet(rs)
        /\ new \subseteq Request /\ IsFiniteSet(new)
    BY DEF Table
  <1>2. Revision(rs) = Cardinality(rs) + Cardinality(Decided(rs)) + Cardinality(Transferred(rs))
                         + Cardinality(Expiries(rs)) + Cardinality(Cleared(rs))
    BY <1>1, PartsFinite
  <1>3. Revision(new) = Cardinality(new) + Cardinality(Decided(new)) + Cardinality(Transferred(new))
                          + Cardinality(Expiries(new)) + Cardinality(Cleared(new))
    BY <1>1, PartsFinite
  <1> QED  BY <1>2, <1>3

-----------------------------------------------------------------------------
(* The actions *)

\* What a change of the table must do: leave a good table, advance the
\* revision by one, and keep every resolution.
Resolution(r, s) ==
    /\ s.cmd = r.cmd
    /\ r.state # "pending" => \/ s = r
                              \/ /\ r.state = "accepted" /\ r.clearance = None
                                 /\ s = [r EXCEPT !.clearance = s.clearance]
Good(rs, new) ==
    /\ Table(new)
    /\ Revision(new) = Revision(rs) + 1
    /\ \A r \in rs : \E s \in new : Resolution(r, s)

\* The rows M of a table, rewritten by u, stay rows of the table.
LEMMA RewriteSome ==
    ASSUME NEW rs, NEW M, M \subseteq rs, NEW u,
           NEW h, h = [r \in rs |-> IF r \in M THEN u[r] ELSE r]
    PROVE  Rewritten(h, rs) = (rs \ M) \cup {u[r] : r \in M}
  BY DEF Rewritten

\* ExpirePending: one new fact, carried by every pending row of the flight.
LEMMA ExpireGood ==
    ASSUME RequestAssumption, Table(requests), NEW f \in Flights, NEW n \in 1..MaxCommits, ExpirePending(f, n)
    PROVE  Good(requests, requests')
  <1> DEFINE M == Pending(f)
             u == [r \in M |-> [r EXCEPT !.state = "expired", !.expiry = <<f, n>>]]
             h == [r \in requests |-> IF r \in M THEN u[r] ELSE r]
             e == <<f, n>>
  <1>1. /\ M \subseteq requests /\ M # {} /\ \A r \in M : r \in Request /\ r.flight = f /\ r.state = "pending"
        /\ requests \subseteq Request
    BY DEF Pending, ExpirePending, Table
  <1>2. e \in ExpiryFacts /\ e # <<>>
    BY DEF ExpiryFacts
  <1>3. \A r \in M : /\ u[r] \in Request /\ u[r].cmd = r.cmd /\ u[r].flight = r.flight /\ u[r].kind = r.kind
                     /\ u[r].state = "expired" /\ u[r].decision = r.decision /\ u[r].expiry = e
                     /\ u[r].transfers = r.transfers /\ u[r].clearance = r.clearance
    <2> TAKE r \in M
    <2>1. u[r] = [r EXCEPT !.state = "expired", !.expiry = e] /\ r \in Request
      BY <1>1
    <2> HIDE DEF u, e
    <2> QED  BY <1>2, <2>1 DEF Request, Resolved
  <1>4. requests' = Rewritten(h, requests)
    <2>1. requests' = (requests \ M) \cup {u[r] : r \in M}
      BY DEF ExpirePending
    <2> HIDE DEF u
    <2> QED  BY <1>1, <2>1, RewriteSome
  <1> HIDE DEF u
  <1>5. /\ h \in [requests -> Request]
        /\ \A r \in requests : IF r \in M THEN h[r] = u[r] ELSE h[r] = r
    BY <1>1, <1>3
  <1> HIDE DEF h
  <1>6. Rewriting(h, requests)
    <2>1. \A r \in M : Coherent(u[r])
      BY <1>1, <1>3 DEF Coherent, Table
    <2> QED  BY <1>1, <1>3, <1>5, <2>1 DEF Rewriting, Table
  <1>7. Table(requests') /\ Cardinality(requests') = Cardinality(requests)
    BY <1>4, <1>6, RewritingKeeps
  <1>8. /\ Cardinality(Decided(requests')) = Cardinality(Decided(requests))
        /\ Transferred(requests') = Transferred(requests) /\ Cleared(requests') = Cleared(requests)
    BY <1>3, <1>4, <1>5, <1>6, RewritingCounts
  <1>9. Expiries(requests') = Expiries(requests) \cup {e} /\ e \notin Expiries(requests)
    <2>1. \A r \in M : r.expiry = <<>>
      BY <1>1 DEF Table, Coherent
    <2>2. \A r \in requests : r.expiry # e
      BY DEF ExpirePending
    <2>3. \A x \in requests' : x.expiry = e \/ x \in requests \ M
      BY <1>3, <1>4, <1>5 DEF Rewritten
    <2>4. \A x \in requests \ M : x \in requests'
      BY <1>4, <1>5 DEF Rewritten
    <2>5. \E x \in requests' : x.expiry = e
      BY <1>1, <1>3, <1>4, <1>5 DEF Rewritten
    <2>6. ASSUME NEW x PROVE x \in Expiries(requests') <=> x \in Expiries(requests) \cup {e}
      BY <1>2, <2>1, <2>3, <2>4, <2>5 DEF Expiries
    <2> QED  BY <2>2, <2>6 DEF Expiries
  <1>10. Revision(requests') = Revision(requests) + 1
    <2>1. Cardinality(Expiries(requests')) = Cardinality(Expiries(requests)) + 1
      BY <1>9, Counts, FS_AddElement
    <2> QED  BY <1>7, <1>8, <2>1, Counts, OneMore
  <1>11. \A r \in requests : h[r] \in requests' /\ Resolution(r, h[r])
    BY <1>1, <1>3, <1>4, <1>5 DEF Resolution, Rewritten
  <1> QED  BY <1>7, <1>10, <1>11 DEF Good

\* TransferPending: one new fact, carried by every row it moves.
LEMMA TransferGood ==
    ASSUME RequestAssumption, Table(requests), NEW x \in OwnershipFact, TransferPending(x)
    PROVE  Good(requests, requests')
  <1> DEFINE M == Moved(x)
             u == [r \in M |-> [r EXCEPT !.to = x.owner, !.transfers = r.transfers \cup {x.rev}]]
             h == [r \in requests |-> IF r \in M THEN u[r] ELSE r]
             e == <<x.flight, x.rev>>
  <1>1. /\ M \subseteq requests /\ M # {}
        /\ \A r \in M : r \in Request /\ r.flight = x.flight /\ r.state = "pending"
        /\ requests \subseteq Request
    BY DEF Moved, Pending, TransferPending, Table
  <1>2. x.owner \in Recipients /\ x.rev \in 1..MaxFacts /\ x.flight \in Flights
    BY DEF OwnershipFact
  <1>3. \A r \in M : /\ u[r] \in Request /\ u[r].cmd = r.cmd /\ u[r].flight = r.flight /\ u[r].kind = r.kind
                     /\ u[r].state = "pending" /\ u[r].decision = r.decision /\ u[r].expiry = r.expiry
                     /\ u[r].transfers = r.transfers \cup {x.rev} /\ u[r].clearance = r.clearance
    <2> TAKE r \in M
    <2>1. u[r] = [r EXCEPT !.to = x.owner, !.transfers = r.transfers \cup {x.rev}] /\ r \in Request
      BY <1>1
    <2>2. r.transfers \cup {x.rev} \in SUBSET (1..MaxFacts) /\ r.state = "pending"
      BY <1>1, <1>2 DEF Request
    <2> HIDE DEF u
    <2> QED  BY <1>2, <2>1, <2>2 DEF Request
  <1>4. requests' = Rewritten(h, requests)
    <2>1. requests' = (requests \ M) \cup {u[r] : r \in M}
      BY DEF TransferPending
    <2> HIDE DEF u
    <2> QED  BY <1>1, <2>1, RewriteSome
  <1> HIDE DEF u
  <1>5. /\ h \in [requests -> Request]
        /\ \A r \in requests : IF r \in M THEN h[r] = u[r] ELSE h[r] = r
    BY <1>1, <1>3
  <1> HIDE DEF h
  <1>6. Rewriting(h, requests)
    <2>1. \A r \in M : Coherent(u[r])
      BY <1>1, <1>3 DEF Coherent, Table
    <2> QED  BY <1>1, <1>3, <1>5, <2>1 DEF Rewriting, Table
  <1>7. Table(requests') /\ Cardinality(requests') = Cardinality(requests)
    BY <1>4, <1>6, RewritingKeeps
  <1>8. /\ Cardinality(Decided(requests')) = Cardinality(Decided(requests))
        /\ Expiries(requests') = Expiries(requests) /\ Cleared(requests') = Cleared(requests)
    BY <1>3, <1>4, <1>5, <1>6, RewritingCounts
  <1>9. Transferred(requests') = Transferred(requests) \cup {e} /\ e \notin Transferred(requests)
    <2>1. \A r \in requests : r.flight = x.flight => x.rev \notin r.transfers
      BY DEF TransferPending, FactIsNew
    <2>2. ASSUME NEW rs, NEW y
          PROVE  y \in Transferred(rs) <=> \E r \in rs : \E n \in r.transfers : y = <<r.flight, n>>
      BY DEF Transferred
    <2>3. e \notin Transferred(requests)
      <3>1. SUFFICES ASSUME NEW r \in requests, NEW n \in r.transfers, e = <<r.flight, n>> PROVE FALSE
        BY <2>2
      <3>2. r.flight = x.flight /\ n = x.rev
        BY <3>1
      <3> QED  BY <2>1, <3>2
    <2> HIDE DEF M
    <2>4. \A r \in requests : /\ h[r] \in requests' /\ h[r].flight = r.flight
                              /\ r \in M => h[r].transfers = r.transfers \cup {x.rev}
                              /\ r \notin M => h[r].transfers = r.transfers
      BY <1>3, <1>4, <1>5 DEF Rewritten
    <2>5. \A s \in requests' : \E r \in requests : s = h[r]
      BY <1>4 DEF Rewritten
    <2>6. ASSUME NEW y \in Transferred(requests') PROVE y \in Transferred(requests) \cup {e}
      <3>1. PICK s \in requests' : \E n \in s.transfers : y = <<s.flight, n>>
        BY <2>2, <2>6
      <3>2. PICK n \in s.transfers : y = <<s.flight, n>>
        BY <3>1
      <3>3. PICK r \in requests : s = h[r]
        BY <2>5
      <3>4. CASE n \in r.transfers
        <4>1. y = <<r.flight, n>>
          BY <2>4, <3>2, <3>3
        <4> QED  BY <2>2, <3>4, <4>1
      <3>5. CASE n \notin r.transfers
        <4>1. r \in M /\ n = x.rev
          BY <2>4, <3>2, <3>3, <3>5
        <4>2. y = e
          BY <1>1, <2>4, <3>2, <3>3, <4>1
        <4> QED  BY <4>2
      <3> QED  BY <3>4, <3>5
    <2>7. ASSUME NEW y \in Transferred(requests) PROVE y \in Transferred(requests')
      <3>1. PICK r \in requests : \E n \in r.transfers : y = <<r.flight, n>>
        BY <2>2, <2>7
      <3>2. PICK n \in r.transfers : y = <<r.flight, n>>
        BY <3>1
      <3>3. n \in h[r].transfers /\ h[r].flight = r.flight /\ h[r] \in requests'
        BY <2>4, <3>2
      <3>4. y = <<h[r].flight, n>>
        BY <3>2, <3>3
      <3> QED  BY <2>2, <3>3, <3>4
    <2>8. e \in Transferred(requests')
      <3>1. PICK r \in M : TRUE
        BY <1>1
      <3>2. x.rev \in h[r].transfers /\ h[r].flight = x.flight /\ h[r] \in requests'
        BY <1>1, <2>4
      <3>3. e = <<h[r].flight, x.rev>>
        BY <3>2
      <3> QED  BY <2>2, <3>2, <3>3
    <2> QED  BY <2>3, <2>6, <2>7, <2>8
  <1>10. Revision(requests') = Revision(requests) + 1
    <2>1. Cardinality(Transferred(requests')) = Cardinality(Transferred(requests)) + 1
      BY <1>9, Counts, FS_AddElement
    <2> QED  BY <1>7, <1>8, <2>1, Counts, OneMore
  <1>11. \A r \in requests : h[r] \in requests' /\ Resolution(r, h[r])
    BY <1>1, <1>3, <1>4, <1>5 DEF Resolution, Rewritten
  <1> QED  BY <1>7, <1>10, <1>11 DEF Good

\* CorrelateAccepted: one new clearance, on one row.
LEMMA CorrelateGood ==
    ASSUME RequestAssumption, Table(requests), NEW f \in Flights, NEW k \in Kinds, NEW x \in Clearances,
           CorrelateAccepted(f, k, x)
    PROVE  Good(requests, requests')
  <1>1. PICK r \in requests :
          /\ r.flight = f /\ r.kind = k /\ r.state = "accepted" /\ r.clearance = None
          /\ requests' = (requests \ {r}) \cup {[r EXCEPT !.clearance = x]}
    BY DEF CorrelateAccepted
  <1> DEFINE d == [r EXCEPT !.clearance = x]
             h == [s \in requests |-> IF s = r THEN d ELSE s]
  <1>2. requests \subseteq Request /\ r \in Request /\ Coherent(r) /\ x # None
    BY DEF Table, RequestAssumption
  <1>3. /\ d \in Request /\ d.cmd = r.cmd /\ d.flight = r.flight /\ d.kind = r.kind /\ d.state = r.state
        /\ d.decision = r.decision /\ d.expiry = r.expiry /\ d.transfers = r.transfers /\ d.clearance = x
    BY <1>2 DEF Request
  <1>4. requests' = Rewritten(h, requests)
    BY <1>1 DEF Rewritten
  <1>5. Resolution(r, d)
    BY <1>1, <1>2, <1>3 DEF Resolution, Request
  <1> HIDE DEF d
  <1>6. /\ h \in [requests -> Request]
        /\ \A s \in requests : IF s = r THEN h[s] = d ELSE h[s] = s
    BY <1>2, <1>3
  <1> HIDE DEF h
  <1>7. Rewriting(h, requests)
    <2>1. Coherent(d)
      BY <1>2, <1>3 DEF Coherent
    <2> QED  BY <1>3, <1>6, <2>1 DEF Rewriting, Table
  <1>8. Table(requests') /\ Cardinality(requests') = Cardinality(requests)
    BY <1>4, <1>7, RewritingKeeps
  <1>9. /\ Cardinality(Decided(requests')) = Cardinality(Decided(requests))
        /\ Expiries(requests') = Expiries(requests) /\ Transferred(requests') = Transferred(requests)
    BY <1>3, <1>4, <1>6, <1>7, RewritingCounts
  <1>10. Cleared(requests') = Cleared(requests) \cup {x} /\ x \notin Cleared(requests)
    <2>1. \A s \in requests : s.clearance # x
      BY DEF CorrelateAccepted
    <2>2. requests' = (requests \ {r}) \cup {d}
      BY <1>1 DEF d
    <2>3. ASSUME NEW y PROVE y \in Cleared(requests') <=> y \in Cleared(requests) \cup {x}
      BY <1>1, <1>2, <1>3, <2>2 DEF Cleared
    <2> QED  BY <2>1, <2>3 DEF Cleared
  <1>11. Revision(requests') = Revision(requests) + 1
    <2>1. Cardinality(Cleared(requests')) = Cardinality(Cleared(requests)) + 1
      BY <1>10, Counts, FS_AddElement
    <2> QED  BY <1>8, <1>9, <2>1, Counts, OneMore
  <1>12. \A s \in requests : h[s] \in requests' /\ Resolution(s, h[s])
    BY <1>4, <1>5, <1>6 DEF Resolution, Rewritten
  <1> QED  BY <1>8, <1>11, <1>12 DEF Good

\* Submit: one new row, and perhaps a superseded one.
LEMMA SubmitGood ==
    ASSUME RequestAssumption, Table(requests), NEW v \in Held, v.cmd \in Commands, v.flight \in Flights,
           v.kind \in Kinds, ~Used(v.cmd), SubmitInsert(v)
    PROVE  Good(requests, requests')
  <1> DEFINE n == New(v)
  <1>1. /\ n \in Request /\ n.cmd = v.cmd /\ n.flight = v.flight /\ n.kind = v.kind /\ n.state = "pending"
        /\ n.decision = None /\ n.transfers = {} /\ n.expiry = <<>> /\ n.clearance = None
    BY DEF New, Request, Held
  <1>2. \A r \in requests : n.cmd # r.cmd /\ n.cmd # r.decision
    BY <1>1 DEF Used
  <1>3. \E h : /\ Rewriting(h, requests)
               /\ \A r \in requests : /\ h[r].transfers = r.transfers /\ h[r].expiry = r.expiry
                                      /\ h[r].clearance = r.clearance /\ Resolution(r, h[r])
                                      /\ ~(h[r].flight = n.flight /\ h[r].kind = n.kind /\ h[r].state = "pending")
               /\ requests' = Rewritten(h, requests) \cup {n}
    <2> HIDE DEF n
    <2>1. CASE Replaced(v) = {}
      <3> DEFINE h == [r \in requests |-> r]
      <3>1. Rewriting(h, requests) /\ \A r \in requests : h[r] = r
        BY DEF Rewriting, Table
      <3>2. requests' = Rewritten(h, requests) \cup {n}
        BY <2>1 DEF SubmitInsert, Rewritten, n
      <3>3. \A r \in requests : ~(r.flight = n.flight /\ r.kind = n.kind /\ r.state = "pending")
        BY <1>1, <2>1 DEF Replaced, Pending
      <3>4. \A r \in requests : Resolution(r, r)
        BY DEF Resolution
      <3> HIDE DEF h
      <3> QED  BY <3>1, <3>2, <3>3, <3>4
    <2>2. CASE Replaced(v) # {}
      <3>1. PICK r \in Replaced(v) : requests' = (requests \ {r}) \cup {n, [r EXCEPT !.state = "superseded"]}
        BY <2>2 DEF SubmitInsert, n
      <3> DEFINE d == [r EXCEPT !.state = "superseded"]
                 h == [s \in requests |-> IF s = r THEN d ELSE s]
      <3>2. /\ r \in requests /\ r \in Request /\ r.state = "pending" /\ r.flight = n.flight /\ r.kind = n.kind
            /\ requests \subseteq Request /\ Coherent(r)
        BY <1>1 DEF Replaced, Pending, Table
      <3>3. /\ d \in Request /\ d.cmd = r.cmd /\ d.flight = r.flight /\ d.kind = r.kind /\ d.state = "superseded"
            /\ d.decision = r.decision /\ d.expiry = r.expiry /\ d.transfers = r.transfers
            /\ d.clearance = r.clearance
        BY <3>2 DEF Request, Resolved
      <3>4. requests' = Rewritten(h, requests) \cup {n}
        BY <3>1, <3>2 DEF Rewritten
      <3> HIDE DEF d
      <3>5. /\ h \in [requests -> Request]
            /\ \A s \in requests : IF s = r THEN h[s] = d ELSE h[s] = s
        BY <3>2, <3>3
      <3> HIDE DEF h
      <3>6. Coherent(d)
        BY <3>2, <3>3 DEF Coherent
      <3>7. Rewriting(h, requests)
        BY <3>3, <3>5, <3>6 DEF Rewriting, Table
      <3>8. \A s \in requests : s # r => ~(s.flight = n.flight /\ s.kind = n.kind /\ s.state = "pending")
        BY <3>2 DEF Table
      <3>9. \A s \in requests : Resolution(s, h[s])
        BY <3>2, <3>3, <3>5 DEF Resolution
      <3> QED  BY <3>3, <3>4, <3>5, <3>7, <3>8, <3>9
    <2> QED  BY <2>1, <2>2
  <1>4. PICK h : /\ Rewriting(h, requests)
                 /\ \A r \in requests : /\ h[r].transfers = r.transfers /\ h[r].expiry = r.expiry
                                        /\ h[r].clearance = r.clearance /\ Resolution(r, h[r])
                                        /\ ~(h[r].flight = n.flight /\ h[r].kind = n.kind /\ h[r].state = "pending")
                 /\ requests' = Rewritten(h, requests) \cup {n}
    BY <1>3
  <1> HIDE DEF n
  <1> DEFINE old == Rewritten(h, requests)
  <1>5. Table(old) /\ Cardinality(old) = Cardinality(requests)
    BY <1>4, RewritingKeeps
  <1>6. /\ Cardinality(Decided(old)) = Cardinality(Decided(requests)) /\ Transferred(old) = Transferred(requests)
        /\ Expiries(old) = Expiries(requests) /\ Cleared(old) = Cleared(requests)
    BY <1>4, RewritingCounts
  <1>7. /\ \A r \in old : n.cmd # r.cmd /\ n.cmd # r.decision
        /\ \A r \in old : ~(r.flight = n.flight /\ r.kind = n.kind /\ r.state = "pending")
    BY <1>2, <1>4 DEF Rewriting, Rewritten
  <1>8. \A r \in requests : h[r] \in old
    BY DEF Rewritten
  <1> HIDE DEF old
  <1>9. Table(requests') /\ Cardinality(requests') = Cardinality(old) + 1
    BY <1>1, <1>4, <1>5, <1>7, InsertKeeps DEF old
  <1>10. /\ Decided(requests') = Decided(old) /\ Expiries(requests') = Expiries(old)
         /\ Cleared(requests') = Cleared(old)
    <2>1. requests' = old \cup {n}
      BY <1>4 DEF old
    <2> QED  BY <1>1, <2>1 DEF Decided, Expiries, Cleared
  <1>11. Transferred(requests') = Transferred(old)
    <2>1. requests' = old \cup {n}
      BY <1>4 DEF old
    <2> QED  BY <1>1, <2>1 DEF Transferred
  <1>12. Revision(requests') = Revision(requests) + 1
    BY <1>5, <1>6, <1>9, <1>10, <1>11, Counts, OneMore
  <1> QED  BY <1>4, <1>8, <1>9, <1>12 DEF Good, old

\* Decide: one pending row is decided with an unused command.
LEMMA DecideGood ==
    ASSUME RequestAssumption, Table(requests), NEW v, v.cmd \in Commands, ~Used(v.cmd),
           NEW r \in Decidable(v), NEW st \in {"accepted", "rejected"},
           requests' = (requests \ {r}) \cup {[r EXCEPT !.state = st, !.decision = v.cmd]}
    PROVE  Good(requests, requests')
  <1> DEFINE d == [r EXCEPT !.state = st, !.decision = v.cmd]
  <1>1. r \in requests /\ r \in Request /\ r.state = "pending" /\ Coherent(r) /\ v.cmd # None
    BY DEF Decidable, Table, RequestAssumption
  <1>2. /\ d \in Request /\ d.cmd = r.cmd /\ d.flight = r.flight /\ d.kind = r.kind /\ d.state = st
        /\ d.decision = v.cmd /\ d.expiry = r.expiry /\ d.transfers = r.transfers /\ d.clearance = r.clearance
    BY <1>1 DEF Request, Resolved
  <1>3. \A s \in requests : v.cmd # s.cmd /\ v.cmd # s.decision
    BY DEF Used
  <1>4. requests' = (requests \ {r}) \cup {d}
    OBVIOUS
  <1> HIDE DEF d
  <1>5. Table((requests \ {r}) \cup {d}) /\ Cardinality((requests \ {r}) \cup {d}) = Cardinality(requests)
    BY <1>1, <1>2, <1>3, DecisionKeeps
  <1>6. Table(requests') /\ Cardinality(requests') = Cardinality(requests)
    BY <1>4, <1>5
  <1>7. Decided(requests') = Decided(requests) \cup {d} /\ d \notin Decided(requests)
    BY <1>1, <1>2, <1>3, <1>4 DEF Decided, Coherent
  <1>8. Expiries(requests') = Expiries(requests) /\ Cleared(requests') = Cleared(requests)
    BY <1>1, <1>2, <1>4 DEF Expiries, Cleared
  <1>9. Transferred(requests') = Transferred(requests)
    BY <1>1, <1>2, <1>4 DEF Transferred
  <1>10. Revision(requests') = Revision(requests) + 1
    <2>1. Cardinality(Decided(requests')) = Cardinality(Decided(requests)) + 1
      BY <1>7, Counts, FS_AddElement
    <2> QED  BY <1>6, <1>8, <1>9, <2>1, Counts, OneMore
  <1>11. \A s \in requests : \E t \in requests' : Resolution(s, t)
    BY <1>1, <1>2, <1>4 DEF Resolution
  <1> QED  BY <1>6, <1>10, <1>11 DEF Good

-----------------------------------------------------------------------------
(* The specification *)

\* What a step does to the table: nothing, or a good change.
Changes == requests' = requests \/ Good(requests, requests')

\* An empty call is well-formed.
LEMMA IdleHeld == ASSUME RequestAssumption PROVE HeldOK(Idle)
  BY DEF HeldOK, Held, Idle, Recipients

\* A client's goroutine moves on with v.
LEMMA CallKeeps ==
    ASSUME IInv, NEW c \in Clients, NEW v, HeldOK(v), call' = [call EXCEPT ![c] = v]
    PROVE  call' \in [Clients -> Held] /\ \A d \in Clients : HeldOK(call'[d])
  <1>1. v \in Held /\ call \in [Clients -> Held]
    BY DEF HeldOK, IInv
  <1>2. ASSUME NEW d \in Clients PROVE HeldOK(call'[d])
    <2>1. call'[d] = IF d = c THEN v ELSE call[d]
      BY <1>1
    <2> QED  BY <2>1 DEF IInv
  <1> QED  BY <1>1, <1>2

\* The reads before a transaction, and the end of a call.
LEMMA ReadsKeep ==
    ASSUME RequestAssumption, IInv, NEW c \in Clients,
           \/ \E cmd \in Commands, f \in Flights, k \in Kinds : SubmitStart(c, cmd, f, k)
           \/ \E cmd \in Commands : \E r \in requests : DecideStart(c, cmd, r)
           \/ DecideAuthorize(c) \/ Abandon(c)
    PROVE  IInv' /\ requests' = requests
  <1>1. requests' = requests /\ tracking' = tracking /\ facts' = facts
    BY DEF SubmitStart, DecideStart, DecideAuthorize, Abandon, Return
  <1>2. Revision(requests) \in Nat
    <2>1. Revision(requests) = Cardinality(requests) + Cardinality(Decided(requests))
             + Cardinality(Transferred(requests)) + Cardinality(Expiries(requests)) + Cardinality(Cleared(requests))
      BY PartsFinite DEF IInv, Table
    <2> QED  BY <2>1, Counts DEF IInv
  <1>3. \E v : HeldOK(v) /\ call' = [call EXCEPT ![c] = v]
    <2>1. ASSUME NEW cmd \in Commands, NEW f \in Flights, NEW k \in Kinds, SubmitStart(c, cmd, f, k)
          PROVE  \E v : HeldOK(v) /\ call' = [call EXCEPT ![c] = v]
      <3> DEFINE v == [Idle EXCEPT !.op = "submit", !.cmd = cmd, !.flight = f, !.kind = k,
                                   !.to = tracking[f], !.expected = Revision(requests)]
      <3>1. tracking[f] \in Recipients
        BY DEF IInv
      <3>2. HeldOK(v)
        BY <1>2, <3>1, IdleHeld DEF HeldOK, Held
      <3>3. call' = [call EXCEPT ![c] = v]
        BY <2>1 DEF SubmitStart, Put
      <3> QED  BY <3>2, <3>3
    <2>2. ASSUME NEW cmd \in Commands, NEW r \in requests, DecideStart(c, cmd, r)
          PROVE  \E v : HeldOK(v) /\ call' = [call EXCEPT ![c] = v]
      <3> DEFINE v == [Idle EXCEPT !.op = "authorize", !.cmd = cmd, !.flight = r.flight, !.to = r.to,
                                   !.request = r.cmd, !.expected = Revision(requests)]
      <3>1. r.to \in Recipients /\ r.flight \in Flights /\ r.cmd \in Commands
        BY DEF IInv, Table, Request
      <3>2. HeldOK(v)
        BY <1>2, <3>1, IdleHeld DEF HeldOK, Held
      <3>3. call' = [call EXCEPT ![c] = v]
        BY <2>2 DEF DecideStart, Put
      <3> QED  BY <3>2, <3>3
    <2>3. CASE DecideAuthorize(c)
      <3>1. HeldOK(call[c]) /\ call[c].op = "authorize"
        BY <2>3 DEF IInv, DecideAuthorize
      <3> DEFINE v == [call[c] EXCEPT !.op = "decide"]
      <3>2. HeldOK(v)
        BY <3>1 DEF HeldOK, Held
      <3>3. call' = [call EXCEPT ![c] = v] \/ call' = [call EXCEPT ![c] = Idle]
        BY <2>3 DEF DecideAuthorize, Put
      <3> QED  BY <3>2, <3>3, IdleHeld
    <2>4. CASE Abandon(c)
      BY <2>4, IdleHeld DEF Abandon, Return, Put
    <2> QED  BY <2>1, <2>2, <2>3, <2>4
  <1>4. call' \in [Clients -> Held] /\ \A d \in Clients : HeldOK(call'[d])
    BY <1>3, CallKeeps
  <1> QED  BY <1>1, <1>4 DEF IInv

\* The transactions of the repository.
LEMMA TransactionsKeep ==
    ASSUME RequestAssumption, IInv, NEW c \in Clients, Submit(c) \/ Decide(c)
    PROVE  IInv' /\ Changes
  <1>1. tracking' = tracking /\ facts' = facts /\ call' = [call EXCEPT ![c] = Idle]
    BY DEF Submit, Decide, Put
  <1>2. call' \in [Clients -> Held] /\ \A d \in Clients : HeldOK(call'[d])
    BY <1>1, CallKeeps, IdleHeld
  <1>3. HeldOK(call[c]) /\ Table(requests)
    BY DEF IInv
  <1>4. Changes
    <2>1. CASE Submit(c)
      <3>1. /\ call[c] \in Held /\ call[c].cmd \in Commands /\ call[c].flight \in Flights
            /\ call[c].kind \in Kinds
        BY <1>3, <2>1 DEF Submit, HeldOK
      <3>2. requests' = requests \/ (~Used(call[c].cmd) /\ SubmitInsert(call[c]))
        BY <2>1 DEF Submit
      <3> QED  BY <1>3, <3>1, <3>2, SubmitGood DEF Changes
    <2>2. CASE Decide(c)
      <3>1. call[c].cmd \in Commands
        BY <1>3, <2>2 DEF Decide, HeldOK
      <3>2. requests' = requests \/
            /\ ~Used(call[c].cmd)
            /\ \E r \in Decidable(call[c]), st \in {"accepted", "rejected"} :
                  requests' = (requests \ {r}) \cup {[r EXCEPT !.state = st, !.decision = call[c].cmd]}
        BY <2>2 DEF Decide
      <3>3. CASE requests' = requests
        BY <3>3 DEF Changes
      <3>4. CASE requests' # requests
        <4>1. ~Used(call[c].cmd)
          BY <3>2, <3>4
        <4>2. PICK r \in Decidable(call[c]), st \in {"accepted", "rejected"} :
                  requests' = (requests \ {r}) \cup {[r EXCEPT !.state = st, !.decision = call[c].cmd]}
          BY <3>2, <3>4
        <4> QED  BY <1>3, <3>1, <4>1, <4>2, DecideGood DEF Changes
      <3> QED  BY <3>3, <3>4
    <2> QED  BY <2>1, <2>2
  <1>5. Table(requests')
    BY <1>3, <1>4 DEF Changes, Good
  <1> QED  BY <1>1, <1>2, <1>4, <1>5 DEF IInv

\* Facts: observed, and applied to the table.
LEMMA FactsKeep ==
    ASSUME RequestAssumption, IInv,
           \/ \E f \in Flights, owner \in Recipients : TrackingChanges(f, owner)
           \/ \E x \in facts : TransferPending(x)
           \/ \E f \in Flights, n \in 1..MaxCommits : ExpirePending(f, n)
           \/ \E f \in Flights, k \in Kinds, x \in Clearances : CorrelateAccepted(f, k, x)
    PROVE  IInv' /\ Changes
  <1>1. ASSUME NEW f \in Flights, NEW owner \in Recipients, TrackingChanges(f, owner)
        PROVE  IInv' /\ Changes
    <2> DEFINE x == [flight |-> f, owner |-> owner, rev |-> NextRevision(f)]
    <2>1. requests' = requests /\ call' = call /\ tracking' \in [Flights -> Recipients] /\ facts' = facts \cup {x}
      BY <1>1 DEF TrackingChanges, IInv
    <2>2. NextRevision(f) \in 1..MaxFacts
      <3> DEFINE seen == {y \in facts : y.flight = f}
      <3>1. IsFiniteSet(seen)
        BY FS_Subset DEF IInv
      <3>2. Cardinality(seen) \in Nat
        BY <3>1, FS_CardinalityType
      <3>3. NextRevision(f) = Cardinality(seen) + 1 /\ NextRevision(f) =< MaxFacts
        BY <1>1 DEF NextRevision, TrackingChanges
      <3> QED  BY <3>2, <3>3 DEF RequestAssumption
    <2>3. x \in OwnershipFact
      BY <2>2 DEF OwnershipFact
    <2>4. IsFiniteSet(facts')
      BY <2>1, FS_AddElement DEF IInv
    <2> HIDE DEF x
    <2> QED  BY <2>1, <2>3, <2>4 DEF IInv, Changes
  <1>2. ASSUME UNCHANGED <<tracking, facts, call>>, Good(requests, requests') PROVE IInv' /\ Changes
    BY <1>2 DEF IInv, Changes, Good
  <1>3. ASSUME NEW x \in facts, TransferPending(x) PROVE IInv' /\ Changes
    BY <1>2, <1>3, TransferGood DEF IInv, TransferPending
  <1>4. ASSUME NEW f \in Flights, NEW n \in 1..MaxCommits, ExpirePending(f, n) PROVE IInv' /\ Changes
    BY <1>2, <1>4, ExpireGood DEF IInv, ExpirePending
  <1>5. ASSUME NEW f \in Flights, NEW k \in Kinds, NEW x \in Clearances, CorrelateAccepted(f, k, x)
        PROVE  IInv' /\ Changes
    BY <1>2, <1>5, CorrelateGood DEF IInv, CorrelateAccepted
  <1> QED  BY <1>1, <1>3, <1>4, <1>5

\* No request, and nobody in a call.
LEMMA InitInv == ASSUME RequestAssumption, Init PROVE IInv
  <1>1. Table({})
    BY FS_EmptySet DEF Table
  <1>2. HeldOK(Idle) /\ Idle \in Held
    BY IdleHeld DEF HeldOK
  <1> QED  BY <1>1, <1>2, FS_EmptySet DEF Init, IInv

\* One case per action.
LEMMA NextInv == ASSUME RequestAssumption, IInv, [Next]_vars PROVE IInv' /\ Changes
  <1>1. CASE UNCHANGED vars
    BY <1>1 DEF vars, IInv, Changes
  <1>2. CASE Next
    BY <1>2, ReadsKeep, TransactionsKeep, FactsKeep DEF Next, Changes
  <1> QED  BY <1>1, <1>2

\* The invariant holds in every reachable state.
THEOREM RequestInvariant == Spec => []IInv
  BY RequestAssumption, InitInv, NextInv, PTL DEF Spec

\* A controller is never asked two things of one kind for one flight
\* (Repository.Submit supersedes), for any interleaving of reads and
\* transactions.
THEOREM RequestOnePending == Spec => []OnePending
  <1>1. IInv => OnePending
    BY DEF IInv, Table, OnePending
  <1> QED  BY <1>1, RequestInvariant, PTL

\* A command ID has one effect at most, however often it is sent (the duplicate
\* checks of Repository.Submit and Repository.Decide).
THEOREM RequestCommandOnce == Spec => []CommandOnce
  <1>1. IInv => CommandOnce
    BY DEF IInv, Table, CommandOnce
  <1> QED  BY <1>1, RequestInvariant, PTL

\* coordinationRevision is a version number although it is computed: every
\* change of the table advances it by exactly one.
THEOREM RequestRevisionAdvances == Spec => RevisionAdvances
  <1>1. IInv /\ [Next]_vars => [requests' # requests => Revision(requests') = Revision(requests) + 1]_vars
    BY RequestAssumption, NextInv DEF Changes, Good
  <1> QED  BY <1>1, RequestInvariant, PTL DEF Spec, RevisionAdvances

\* No request is lost and no resolution is revised.
THEOREM RequestResolutionFinal == Spec => ResolutionFinal
  <1>1. ASSUME IInv, [Next]_vars
        PROVE  \A r \in requests : \E s \in requests' : Resolution(r, s)
    <2>1. \A r \in requests : Resolution(r, r)
      BY DEF Resolution
    <2> QED  BY <1>1, <2>1, RequestAssumption, NextInv DEF Changes, Good
  <1>2. IInv /\ [Next]_vars =>
          [\A r \in requests : \E s \in requests' :
              /\ s.cmd = r.cmd
              /\ r.state # "pending" => \/ s = r
                                        \/ /\ r.state = "accepted" /\ r.clearance = None
                                           /\ s = [r EXCEPT !.clearance = s.clearance]]_vars
    BY <1>1 DEF Resolution
  <1> QED  BY <1>2, RequestInvariant, PTL DEF Spec, ResolutionFinal

=============================================================================
