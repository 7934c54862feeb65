--------------------------- MODULE MCAuthServer ---------------------------
(***************************************************************************)
(* Instances of AuthServer for TLC.                                        *)
(***************************************************************************)
EXTENDS AuthServer, TLC

\* Interchangeable identifiers: threads and the values drawn at random.
Symmetry == Permutations(Threads) \cup Permutations(AuthCodes)
              \cup Permutations(RefreshTokens) \cup Permutations(PairCodes)
              \cup Permutations(SigningKeys) \cup Permutations(Clients)

\* The same for liveness, which a symmetry set would not be sound for: of the
\* steps that differ only in the fresh identifier they draw, one is explored.
\* Each identifier is drawn once, so every behaviour of FairSpec is one of these
\* after renaming its identifiers in the order of their draws.
FirstOf(S) == CHOOSE x \in S : TRUE

FirstDraw ==
  /\ \A S \in {Clients, AuthCodes, RefreshTokens, SigningKeys} :
       \A x \in S \cap (drawn' \ drawn) : x = FirstOf(S \ drawn)
  /\ \A c \in PairCodes : owner'[c] # owner[c] =>
       c = FirstOf({d \in PairCodes : owner[d] = Absent})
=============================================================================
