---------------------------- MODULE MCMessaging ----------------------------
EXTENDS Messaging

Act(via, kind, on, text) ==
    [via |-> via, kind |-> kind, on |-> on, post |-> 0, text |-> text]

MCTarget == [m \in {"q1", "q2", "q3", "s", "r"} |-> IF m = "r" THEN "cli" ELSE "telegram"]

\* One of the questions is asked in another chat.
MCChat == [m \in {"q1", "q2", "q3", "s", "r"} |-> IF m = "r" THEN "cli" ELSE IF m = "q3" THEN "b" ELSE "a"]

MCAlike == {{<<"q1", 1>>, <<"q3", 1>>}}

MCEvent == {Act("telegram", "message", "q1", "chat"),
            Act("telegram", "message", None, "cancel"),
            Act("telegram", "button", "q1", "chat"),
            Act("discord", "slash", None, "budget")}

=============================================================================
