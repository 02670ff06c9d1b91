------------------------------ MODULE MCGateway ------------------------------
(* Instances of the serving path: prompts are token sequences, split and   *)
(* hashed as the code does.                                                *)
EXTENDS Claims, TLC, Sequences

CONSTANTS r1, r2, r3, r4,     \* requests
          s1, s2,             \* conversations
          p0, p1, d0, d1      \* worker URLs

Token == {1, 2}
Tuple(chunk) == chunk
Events == INSTANCE KvEvents WITH HashOf <- Tuple

MCHash == [1 .. BlockSize -> Token]

(* r2 is r1's next turn; r3 shares a block with it; r4 shares none. *)
Prompt == (r1 :> <<1, 1, 2>>) @@ (r2 :> <<1, 1, 2, 2, 1>>)
            @@ (r3 :> <<2, 2>>) @@ (r4 :> <<>>)

MCIsl    == [r \in Req |-> Len(Prompt[r])]
MCBlocks == [r \in Req |-> Events!BlockSet(Prompt[r])]

OneConversation  == [r \in Req |-> s1]
TwoConversations == [r \in Req |-> IF r = r3 THEN s2 ELSE s1]
OneEach          == [r \in Req |-> IF r = r1 THEN s1 ELSE s2]
NoConversation   == [r \in Req |-> NoSession]

TwoPrefills == 0 :> p0 @@ 1 :> p1
OnePrefill  == 0 :> p0
TwoDecodes  == 0 :> d0 @@ 1 :> d1
OneDecode   == 0 :> d0
=============================================================================
