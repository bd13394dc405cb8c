----------------------------- MODULE MitogenLogin -----------------------------
(***************************************************************************)
(* The password: the protocols of mitogen/ssh.py, su.py, sudo.py and       *)
(* doas.py on a terminal, after RegexProtocol and DelimitedProtocol.  What *)
(* the login program prints is read in any number of pieces, and a line    *)
(* that is not complete is looked at again with every piece that is added. *)
(***************************************************************************)
EXTENDS Naturals, Sequences, SequencesExt, FiniteSetsExt

CONSTANT MaxTries       \* how often a login program may ask

ASSUME LoginAssumption == MaxTries \in Nat

VARIABLES
    login,      \* the program
    given,      \* the password the connection has: "right", "wrong" or "none"
    needs,      \* the program asks for one
    denies,     \* it turns this user away, whatever is typed
    unknown, accept,    \* ssh: the host key is not known; check_host_keys=accept
    tries,      \* how often the program will ask again
    program,    \* "keys", "confirm", "start", "asked", "in", "out"
    tty,        \* what it has printed and nobody has read
    line,       \* _trailer: what was read of a line that has not ended
    input,      \* what was written to it
    passwordSent,       \* password_sent
    twice,      \* a prompt was answered more than once
    outcome     \* of the connection

loginVars == <<login, given, needs, denies, unknown, accept, tries, program, tty, line, input,
               passwordSent, twice, outcome>>
chosen == <<login, given, needs, denies, unknown, accept>>

LoginTypeOK ==
    /\ program \in {"keys", "confirm", "start", "asked", "in", "out"}
    /\ outcome \in {"waiting", "connected", "incorrect", "required", "hostkey", "denied", "lost"}
    /\ given \in {"right", "wrong", "none"} /\ passwordSent \in BOOLEAN /\ twice \in BOOLEAN

LoginInit ==
    /\ login \in {"ssh", "su", "sudo", "doas"} /\ given \in {"right", "wrong", "none"}
    /\ needs \in BOOLEAN /\ denies \in BOOLEAN /\ tries \in 1..MaxTries
    /\ unknown \in BOOLEAN /\ accept \in BOOLEAN /\ (login # "ssh" => ~unknown /\ ~accept)
    /\ program = IF unknown THEN "keys" ELSE "start"
    /\ tty = <<>> /\ line = <<>> /\ input = <<>> /\ passwordSent = FALSE /\ twice = FALSE
    /\ outcome = "waiting"

----------------------------------------------------------------------------
(* The login program.  It hangs up with the terminal that mitogen closes.  *)

Program == outcome = "waiting" /\ UNCHANGED <<chosen, line, passwordSent, twice, outcome>>
Prints(s) == tty' = tty \o s

\* Connection._requires_pty(): without a terminal, BatchMode.
Interactive == login # "ssh" \/ accept \/ given # "none"

\* StrictHostKeyChecking: ask, or yes, unless the user's ssh_args say otherwise.
Keys ==
    /\ Program /\ program = "keys"
    /\ \/ Interactive /\ Prints(<<"question", "tail">>) /\ program' = "confirm"
       \/ ~accept /\ Prints(<<"nokey", "nl">>) /\ program' = "out"
    /\ UNCHANGED <<tries, input>>
Confirm ==
    /\ Program /\ program = "confirm" /\ input # <<>>
    /\ Prints(<<"nl">>) /\ program' = "start" /\ input' = Tail(input)
    /\ UNCHANGED tries
\* ssh's "Permission denied" that names the password, as the last one does where the host
\* takes one, and the one that does not, as between two prompts; and, of the others, what is
\* in incorrect_prompts and what is not.
Refusals ==
    CASE login = "ssh" -> IF needs THEN {"denied", "refused"} ELSE {"refused"}
      [] login = "sudo" -> {"other"}
      [] OTHER -> {"incorrect", "other"}
LetIn ==
    /\ Program /\ program = "start" /\ ~needs /\ ~denies
    /\ program' = "in"
    /\ UNCHANGED <<tty, input, tries>>
\* What was typed before the prompt is flushed.
AskPassword ==
    /\ Program /\ program = "start" /\ needs /\ Interactive
    /\ Prints(<<"prompt", "tail">>) /\ program' = "asked" /\ input' = <<>>
    /\ UNCHANGED tries
\* Refused without having been asked, as after publickey alone, or in BatchMode.
TurnAway ==
    /\ Program /\ program = "start" /\ (denies \/ (needs /\ ~Interactive))
    /\ \E x \in Refusals : Prints(<<x, "nl">>)
    /\ program' = "out"
    /\ UNCHANGED <<tries, input>>
Enter ==
    /\ Program /\ program = "asked" /\ input # <<>> /\ Head(input) = "right" /\ ~denies
    /\ Prints(<<"nl">>) /\ program' = "in" /\ input' = Tail(input)
    /\ UNCHANGED tries
\* ssh asks again whatever was wrong, sudo if it was the password, su and doas do not.
AsksAgain == tries > 1 /\ (login = "ssh" \/ (login = "sudo" /\ Head(input) # "right"))
Reject ==
    /\ Program /\ program = "asked" /\ input # <<>> /\ (Head(input) # "right" \/ denies)
    /\ input' = Tail(input) /\ tries' = tries - 1
    /\ \E x \in Refusals :
          /\ login = "ssh" /\ tries > 1 => x = "refused"
          /\ login \in {"su", "doas"} /\ ~denies => x = "incorrect"
          /\ Prints(<<"nl", x, "nl">>)
    /\ program' = IF AsksAgain THEN "start" ELSE "out"

----------------------------------------------------------------------------
(* The protocol that reads the terminal.                                   *)

\* What a whole line that has the text makes of the connection.
Verdict(text) ==
    CASE login = "ssh" /\ text = "nokey" -> "hostkey"
      [] login = "ssh" /\ text \in {"denied", "refused"} ->
            CASE given # "none" /\ passwordSent -> "incorrect"
              [] text = "denied" /\ given = "none" -> "required"
              [] OTHER -> "denied"
      [] text = "incorrect" /\ (login = "su" \/ (login = "doas" /\ passwordSent)) -> "incorrect"
      [] OTHER -> "none"

\* Slip: the flag is not set.
SendUnnoted == input' = Append(input, given) /\ UNCHANGED passwordSent
Send == input' = Append(input, given) /\ passwordSent' = TRUE

\* _on_password_prompt().  ssh's calls a method of the connection that does not exist when
\* there is no password: the terminal is closed, ssh hangs up, and the connection is lost.
PasswordPrompt ==
    /\ twice' = (twice \/ Contains(line, "prompt"))
    /\ \/ /\ given = "none"
          /\ outcome' = IF login = "ssh" THEN "lost" ELSE "required"
          /\ UNCHANGED <<input, passwordSent>>
       \/ /\ given # "none" /\ login # "ssh" /\ passwordSent
          /\ outcome' = "incorrect"
          /\ UNCHANGED <<input, passwordSent>>
       \/ /\ given # "none" /\ (login = "ssh" \/ ~passwordSent)
          /\ Send
          /\ UNCHANGED outcome
HostKeyRequest ==
    /\ IF accept THEN input' = Append(input, "yes") /\ UNCHANGED outcome
       ELSE outcome' = "hostkey" /\ UNCHANGED input
    /\ twice' = (twice \/ Contains(line, "question"))
    /\ UNCHANGED passwordSent

\* ssh's pattern is the word alone: a refusal that names it, before its line ends, is a prompt.
Prompted(rest) == Contains(rest, "prompt") \/ (login = "ssh" /\ Contains(rest, "denied"))
\* RegexProtocol.on_partial_line_received().
OnPartialLine(rest) ==
    \/ Prompted(rest) /\ PasswordPrompt
    \/ ~Prompted(rest) /\ Contains(rest, "question") /\ HostKeyRequest
    \/ ~Prompted(rest) /\ ~Contains(rest, "question") /\ UNCHANGED <<input, passwordSent, twice, outcome>>

\* Once su is in its output is the new context's; what reads ssh's, sudo's and doas's
\* standard error goes on reading it.
ReadTerminal(n) ==
    /\ outcome = "waiting" \/ (outcome = "connected" /\ login # "su")
    /\ LET whole == line \o SubSeq(tty, 1, n)
           last == Max({0} \cup {k \in DOMAIN whole : whole[k] = "nl"})
           bad == {k \in 1..last : Verdict(whole[k]) # "none"}
           rest == SubSeq(whole, last + 1, Len(whole)) IN
       /\ line' = rest
       /\ IF bad # {} THEN outcome' = Verdict(whole[Min(bad)]) /\ UNCHANGED <<input, passwordSent, twice>>
          ELSE OnPartialLine(rest)
    /\ tty' = SubSeq(tty, n + 1, Len(tty))
    /\ UNCHANGED <<chosen, tries, program>>

\* The new context's EC2 on the standard output, which su's terminal output is as well.
LoggedIn ==
    /\ outcome = "waiting" /\ program = "in" /\ (login = "su" => tty = <<>>)
    /\ outcome' = "connected"
    /\ UNCHANGED <<chosen, tries, program, tty, line, input, passwordSent, twice>>
\* Both streams end, after all that was printed was read.
Eof ==
    /\ outcome = "waiting" /\ program = "out" /\ tty = <<>>
    /\ outcome' = "lost"
    /\ UNCHANGED <<chosen, tries, program, tty, line, input, passwordSent, twice>>

LoginNext ==
    \/ Keys \/ Confirm \/ LetIn \/ AskPassword \/ TurnAway \/ Enter \/ Reject
    \/ \E n \in 1..Len(tty) : ReadTerminal(n)
    \/ LoggedIn \/ Eof
LoginSpec == LoginInit /\ [][LoginNext]_loginVars

----------------------------------------------------------------------------

\* What the user is told of the password has its reason, however the terminal's output was
\* cut.  It is incorrect if it is wrong, and the right one only if something came in two
\* pieces and was answered twice, which the code does not notice, or if the program turns the
\* user away: su's refusals count as a wrong password even when none was asked for, and ssh's
\* do once it was sent.  It is required if there is none and one is asked for, of which ssh's
\* prompt, or a refusal that names it and is read in two pieces, makes a lost connection.
\* Once a password was sent a refusal is no longer plainly denied; and whoever is in is not
\* turned away, and had the right one or needed none.
LoginIsExplained ==
    /\ outcome = "incorrect" => \/ given = "wrong"
                                \/ given = "right" /\ twice
                                \/ denies /\ (login = "su" \/ passwordSent)
    /\ outcome = "denied" => /\ login = "ssh" /\ ~passwordSent
                             /\ (denies \/ (given = "none" /\ needs) \/ (unknown /\ accept /\ twice))
    /\ outcome = "required" => given = "none" /\ needs
    /\ outcome = "hostkey" => unknown /\ ~accept
    /\ outcome = "lost" => \/ login = "ssh" /\ given = "none" /\ needs
                           \/ login = "sudo" /\ given = "wrong" /\ tries = 0
                           \/ login # "ssh" /\ denies
    /\ outcome = "connected" => ~denies /\ (needs => given = "right")
=============================================================================
