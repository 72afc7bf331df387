----------------------------- MODULE MCGeneration -----------------------------
(* Every short history in each mode, and photos that share the token. *)
EXTENDS Generation

User(id, sender, author, time, replyTo, meaningful) ==
  [kind |-> "user", id |-> id, sender |-> sender, author |-> author, time |-> time, replyTo |-> replyTo,
   update |-> 0, target |-> 0, known |-> {}, meaningful |-> meaningful]
Bot(id, time, replyTo) ==
  [kind |-> "bot", id |-> id, sender |-> 0, author |-> "bot", time |-> time, replyTo |-> replyTo,
   update |-> 0, target |-> 0, known |-> {}, meaningful |-> TRUE]
Reaction(update, target, time, known) ==
  [kind |-> "reaction", id |-> 0, sender |-> 0, author |-> "", time |-> time, replyTo |-> 0,
   update |-> update, target |-> target, known |-> known, meaningful |-> FALSE]

(* Two users of one name, an anonymous one, two answers of the bot, and    *)
(* reactions to the first of them and to a message that is forgotten.      *)
Entries8 ==
  {User(1, 1, "same", 1, 0, TRUE), User(5, 1, "renamed", 2, 2, FALSE), User(4, 2, "same", 2, 3, TRUE),
   User(6, 0, "channel", 1, 1, TRUE),
   Bot(2, 1, 1), Bot(3, 2, 4),
   Reaction(1, 2, 2, {}), Reaction(2, 9, 1, {[sender |-> 2, author |-> "same", bot |-> FALSE]})}
Histories(n) == {h \in [1..n -> Entries8] : \A i, j \in 1..n : i # j => h[i] # h[j]}
Twice == {<<e, f, e>> : e \in {User(5, 1, "renamed", 2, 2, FALSE), Bot(2, 1, 1)}, f \in Entries8}
Copied == Twice \cup UNION {Histories(n) : n \in 0..3}

Ask(mode, history, entry, recipient) ==
  [mode |-> mode, history |-> history, entry |-> entry, recipient |-> recipient]
Answered == {User(7, 3, "asker", 1, 2, TRUE), User(7, 3, "asker", 3, 3, TRUE), User(7, 3, "asker", 3, 0, FALSE)}
NoEntry == Bot(0, 0, 0)
Photo == Ask("photo", <<>>, User(7, 3, "asker", 1, 0, FALSE), 0)

MCScenarios ==
  {<<Ask("reply", h, e, 0)>> : h \in Copied, e \in Answered}
    \cup {<<Ask("reply", <<e, f>>, e, 0)>> : e \in Answered, f \in Entries8}
    \cup {<<Ask("tag", h, NoEntry, r)>> : h \in Copied, r \in {0, 1}}
    \cup {<<Ask("photo", h, User(7, 3, "asker", 2, 2, FALSE), 0)>> : h \in Histories(3)}
    \cup {<<Photo, Photo>>}
===============================================================================
