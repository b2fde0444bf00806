------------------------------- MODULE MCAnswers -------------------------------
(* Answers for TLC: two texts that differ only in case and outer space, asked at   *)
(* two temperatures, and a third, of a prompt and of a chat of two messages.      *)
EXTENDS Answers, Sequences, TLC

Says(role, content) == [role |-> role, content |-> content]
Question(messages, temperature) == [messages |-> messages, temperature |-> temperature]

High == Question(<<Says("user", "hi")>>, "high")
Padded == Question(<<Says("user", "   HI   ")>>, "low")
Instructed == Question(<<Says("system", "hi"), Says("user", "you")>>, "low")
Plain == Question(<<Says("user", "hi you")>>, "low")

MCQuestions == {High, Padded, Instructed, Plain}
MCText ==
  [q \in MCQuestions |->
     IF Len(q.messages) = 1 THEN q.messages[1].content
     ELSE q.messages[1].content \o " " \o q.messages[2].content]

MCPrompts == {"hi", "   HI   ", "hi you"}
MCNormal == [p \in MCPrompts |-> IF p = "hi you" THEN p ELSE "hi"]
MCLength == [p \in MCPrompts |-> IF p = "   HI   " THEN 8 ELSE IF p = "hi" THEN 2 ELSE 6]

(* Completions for either model, a chat, and a stream that names its model.        *)
MCBodies ==
  {[endpoint |-> "completion", model |-> None, question |-> Plain],
   [endpoint |-> "completion", model |-> None, question |-> Padded],
   [endpoint |-> "chat", model |-> None, question |-> Instructed],
   [endpoint |-> "stream", model |-> FastModel, question |-> High]}

Symmetry == Permutations(Requests)

================================================================================
