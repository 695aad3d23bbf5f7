--------------------------- MODULE EditInteractors ---------------------------
(***************************************************************************)
(* The edit interactors of the C++ binding: state machines that answer the *)
(* questions of "gpg --edit-key" and "gpg --card-edit" (editinteractor.cpp *)
(* and the gpg*interactor.cpp files).  The callback moves the interactor   *)
(* by its table and, when the state changed, writes the answer that        *)
(* belongs to the new state.  gpg's side of the dialogue is external: it   *)
(* is what the tables expect of it, with refusals and failures added.      *)
(***************************************************************************)
EXTENDS Integers, Sequences, FiniteSets

CONSTANT Scenarios   \* an interactor with its settings and the key it meets

VARIABLES sc,        \* the scenario
          state,     \* EditInteractor::Private::state
          error,     \* EditInteractor::Private::error
          nextId,    \* GpgSignKeyEditInteractor::Private::nextId
          backupFile,\* GpgGenCardKeyInteractor::Private::backupFileName is set
          event,     \* the status line the callback gets next
          answer,    \* what the callback wrote, NoAnswer if nothing
          key,       \* external: what gpg has done with the key or card so far
          over       \* "no", "ok", "failed", or "stuck": gpg waits, nobody writes

vars == <<sc, state, error, nextId, backupFile, event, answer, key, over>>

\* A state of an interactor; n counts the states of UIDS_LIST_SEPARATELY.
St(s) == [s |-> s, n |-> 0]
Ans(t) == [text |-> t, n |-> 0]
NoAnswer == Ans("")

BoolPrompts == {"keyedit.sign_all.okay", "sign_uid.okay", "sign_uid.local_promote_okay",
                "keyedit.save.okay", "edit_ownertrust.set_ultimate.okay",
                "cardedit.genkeys.replace_keys"}
StatusLines == {"CARDCTRL", "KEY_CREATED", "BACKUP_KEY_CREATED", "ALREADY_SIGNED",
                "SC_OP_FAILURE", "MISSING_PASSPHRASE", "OTHER"}
Status(e) == IF e \in StatusLines THEN e ELSE IF e \in BoolPrompts THEN "GET_BOOL" ELSE "GET_LINE"
IsPrompt(e) == e \notin StatusLines

\* Of the lines that occur here only MISSING_PASSPHRASE and OTHER need none.
needsNoResponse(e) == Status(e) \notin {"ALREADY_SIGNED", "GET_BOOL", "GET_LINE", "KEY_CREATED",
                                        "SC_OP_FAILURE", "CARDCTRL", "BACKUP_KEY_CREATED"}
status_to_error(e) == Status(e) \in {"MISSING_PASSPHRASE", "ALREADY_SIGNED"}

-----------------------------------------------------------------------------
(* The tables: <<state, status, prompt, next state>> *)

\* The end all tables of "--edit-key" share.
Leave == {<<"QUIT", "GET_BOOL", "keyedit.save.okay", "SAVE">>,
          <<"ERROR", "GET_LINE", "keyedit.prompt", "QUIT">>}

AddUserID_nextState ==
    {<<"START", "GET_LINE", "keyedit.prompt", "COMMAND">>,
     <<"COMMAND", "GET_LINE", "keygen.name", "NAME">>,
     <<"NAME", "GET_LINE", "keygen.email", "EMAIL">>,
     <<"EMAIL", "GET_LINE", "keygen.comment", "COMMENT">>,
     <<"COMMENT", "GET_LINE", "keyedit.prompt", "QUIT">>} \cup Leave

SetOwnerTrust_nextState ==
    {<<"START", "GET_LINE", "keyedit.prompt", "COMMAND">>,
     <<"COMMAND", "GET_LINE", "edit_ownertrust.value", "VALUE">>,
     <<"VALUE", "GET_LINE", "keyedit.prompt", "QUIT">>,
     <<"VALUE", "GET_BOOL", "edit_ownertrust.set_ultimate.okay", "REALLY_ULTIMATE">>,
     <<"REALLY_ULTIMATE", "GET_LINE", "keyedit.prompt", "QUIT">>} \cup Leave

SetExpiryTime_nextState ==
    {<<"START", "GET_LINE", "keyedit.prompt", "COMMAND">>,
     <<"COMMAND", "GET_LINE", "keygen.valid", "DATE">>,
     <<"DATE", "GET_LINE", "keyedit.prompt", "QUIT">>} \cup Leave

\* The cases of GpgGenCardKeyInteractor::nextState that look at a prompt.
GenCardKey_nextState ==
    {<<"GOT_SERIAL", "GET_LINE", "cardedit.prompt", "DO_ADMIN">>,
     <<"DO_ADMIN", "GET_LINE", "cardedit.prompt", "COMMAND">>,
     <<"COMMAND", "GET_LINE", "cardedit.genkeys.backup_enc", "BACKUP">>,
     <<"BACKUP", "GET_BOOL", "cardedit.genkeys.replace_keys", "REPLACE">>,
     <<"BACKUP", "GET_LINE", "cardedit.genkeys.size", "SIZE">>,
     <<"REPLACE", "GET_LINE", "cardedit.genkeys.size", "SIZE">>,
     <<"SIZE", "GET_LINE", "cardedit.genkeys.size", "SIZE2">>,
     <<"SIZE", "GET_LINE", "keygen.valid", "EXPIRE">>,
     <<"SIZE2", "GET_LINE", "cardedit.genkeys.size", "SIZE3">>,
     <<"SIZE2", "GET_LINE", "keygen.valid", "EXPIRE">>,
     <<"SIZE3", "GET_LINE", "keygen.valid", "EXPIRE">>,
     <<"EXPIRE", "GET_LINE", "keygen.name", "NAME">>,
     <<"NAME", "GET_LINE", "keygen.email", "EMAIL">>,
     <<"EMAIL", "GET_LINE", "keygen.comment", "COMMENT">>,
     <<"COMMENT", "BACKUP_KEY_CREATED", "BACKUP_KEY_CREATED", "BACKUP_KEY_CREATED">>,
     <<"COMMENT", "KEY_CREATED", "KEY_CREATED", "KEY_CREATED">>,
     <<"COMMENT", "GET_LINE", "keyedit.prompt", "QUIT">>,
     <<"BACKUP_KEY_CREATED", "KEY_CREATED", "KEY_CREATED", "KEY_CREATED">>,
     <<"QUIT", "GET_LINE", "cardedit.prompt", "QUIT">>,
     <<"ERROR", "GET_LINE", "keyedit.prompt", "QUIT">>}

\* makeTable of the sign interactor.  Its first entry for a prompt after
\* CONFIRM, COMMAND, is replaced by the later one, QUIT.
makeTable ==
    {<<"START", "GET_LINE", "keyedit.prompt", "COMMAND">>,
     <<"COMMAND", "GET_BOOL", "keyedit.sign_all.okay", "UIDS_ANSWER_SIGN_ALL">>,
     <<"COMMAND", "GET_BOOL", "sign_uid.okay", "CONFIRM">>,
     <<"COMMAND", "GET_BOOL", "sign_uid.local_promote_okay", "CONFIRM2">>,
     <<"UIDS_ANSWER_SIGN_ALL", "GET_BOOL", "sign_uid.okay", "CONFIRM">>,
     <<"UIDS_ANSWER_SIGN_ALL", "GET_LINE", "sign_uid.expire", "SET_EXPIRE">>,
     <<"UIDS_ANSWER_SIGN_ALL", "GET_LINE", "sign_uid.class", "SET_CHECK_LEVEL">>,
     <<"SET_TRUST_VALUE", "GET_LINE", "trustsign_prompt.trust_depth", "SET_TRUST_DEPTH">>,
     <<"SET_TRUST_DEPTH", "GET_LINE", "trustsign_prompt.trust_regexp", "SET_TRUST_REGEXP">>,
     <<"SET_TRUST_REGEXP", "GET_LINE", "sign_uid.okay", "CONFIRM">>,
     <<"SET_CHECK_LEVEL", "GET_BOOL", "sign_uid.okay", "CONFIRM">>,
     <<"SET_EXPIRE", "GET_BOOL", "sign_uid.class", "SET_CHECK_LEVEL">>,
     <<"CONFIRM", "GET_BOOL", "sign_uid.local_promote_okay", "CONFIRM">>,
     <<"CONFIRM", "GET_BOOL", "sign_uid.okay", "CONFIRM">>,
     <<"CONFIRM2", "GET_BOOL", "sign_uid.okay", "CONFIRM">>,
     <<"CONFIRM", "GET_LINE", "trustsign_prompt.trust_value", "SET_TRUST_VALUE">>,
     <<"CONFIRM", "GET_LINE", "sign_uid.expire", "SET_EXPIRE">>,
     <<"CONFIRM", "GET_LINE", "sign_uid.class", "SET_CHECK_LEVEL">>,
     <<"UIDS_LIST_DONE", "GET_BOOL", "sign_uid.local_promote_okay", "CONFIRM">>,
     <<"UIDS_LIST_DONE", "GET_LINE", "keyedit.prompt", "COMMAND">>,
     <<"UIDS_LIST_DONE", "GET_LINE", "trustsign_prompt.trust_value", "SET_TRUST_VALUE">>,
     <<"UIDS_LIST_DONE", "GET_LINE", "sign_uid.expire", "SET_EXPIRE">>,
     <<"UIDS_LIST_DONE", "GET_LINE", "sign_uid.class", "SET_CHECK_LEVEL">>,
     <<"UIDS_LIST_DONE", "GET_BOOL", "sign_uid.okay", "CONFIRM">>,
     <<"CONFIRM", "GET_LINE", "keyedit.prompt", "QUIT">>} \cup Leave

Table == CASE sc.kind = "adduid" -> AddUserID_nextState
           [] sc.kind = "ownertrust" -> SetOwnerTrust_nextState
           [] sc.kind = "expire" -> SetExpiryTime_nextState
           [] sc.kind = "gencard" -> GenCardKey_nextState
           [] sc.kind = "sign" -> makeTable

Lookup(e) == {St(t[4]) : t \in {u \in Table : u[1] = state.s /\ u[2] = Status(e) /\ u[3] = e}}

-----------------------------------------------------------------------------
(* nextState and action *)

signAll == sc.uids = <<>>
allUserIDsListed == nextId > Len(sc.uids)

\* The cases of the sign interactor that are not in its table: a prompt
\* after the refusal to sign all starts the list of user ids, another
\* prompt goes on with it, each in a state of its own.
SignSpecial(e) ==
    CASE state.s = "UIDS_ANSWER_SIGN_ALL" /\ e = "keyedit.prompt" /\ ~signAll ->
             {St("UIDS_LIST")}
      [] state.s = "UIDS_LIST" /\ e = "keyedit.prompt" ->
             {IF allUserIDsListed THEN St("UIDS_LIST_DONE") ELSE [state EXCEPT !.n = @ + 1]}
      [] OTHER -> {}

\* The cases of the card interactor: the serial number is compared when
\* one was given; after the key was created anything leads to QUIT.
CardSpecial(e) ==
    CASE state.s = "START" /\ sc.serial = "none" -> {St("GOT_SERIAL")}
      [] state.s = "START" /\ e = "CARDCTRL" /\ sc.serial = "match" -> {St("GOT_SERIAL")}
      [] state.s = "KEY_CREATED" -> {St("QUIT")}
      [] OTHER -> {}

\* nextState: the state itself for a line that needs no response, else what
\* the table or a special case says; nothing means an error.
nextState(e) ==
    IF needsNoResponse(e) THEN {state}
    ELSE IF Lookup(e) # {} THEN Lookup(e)
    ELSE CASE sc.kind = "sign" -> SignSpecial(e)
           [] sc.kind = "gencard" -> CardSpecial(e)
           [] OTHER -> {}

\* Private::command: the sign command for the options.
command == CASE sc.opts = {} -> "lsign"
             [] sc.opts = {"exportable"} -> "sign"
             [] sc.opts = {"nonrevocable"} -> "lnrsign"
             [] sc.opts = {"exportable", "nonrevocable"} -> "nrsign"
             [] sc.opts = {"trust"} -> "ltsign"
             [] sc.opts = {"exportable", "trust"} -> "tsign"
             [] sc.opts = {"nonrevocable", "trust"} -> "ltnrsign"
             [] OTHER -> "tnrsign"

truststrings == <<"1", "1", "2", "3", "4", "5">>

\* Mutant: gpg gets the number the application counts with.
sign_action_zero(s) ==
    CASE s.s \in {"COMMAND", "UIDS_LIST_DONE"} -> {Ans(command)}
      [] s.s = "UIDS_ANSWER_SIGN_ALL" -> {Ans(IF signAll THEN "Y" ELSE "N")}
      [] s.s = "UIDS_LIST" -> {[text |-> "uid", n |-> sc.uids[nextId]]}
      [] s.s \in {"CONFIRM", "CONFIRM2", "SAVE", "SET_EXPIRE"} -> {Ans("Y")}
      [] s.s = "SET_CHECK_LEVEL" -> {Ans("level")}
      [] s.s \in {"SET_TRUST_VALUE", "SET_TRUST_DEPTH", "SET_TRUST_REGEXP"} -> {NoAnswer}
      [] s.s = "QUIT" -> {Ans("quit")}
      [] OTHER -> {}

\* GpgSignKeyEditInteractor::action: user ids are counted from 0 by the
\* application and from 1 by gpg.  Nothing means an error.
SignKey_action(s) ==
    CASE s.s \in {"COMMAND", "UIDS_LIST_DONE"} -> {Ans(command)}
      [] s.s = "UIDS_ANSWER_SIGN_ALL" -> {Ans(IF signAll THEN "Y" ELSE "N")}
      [] s.s = "UIDS_LIST" -> {[text |-> "uid", n |-> sc.uids[nextId] + 1]}
      [] s.s \in {"CONFIRM", "CONFIRM2", "SAVE", "SET_EXPIRE"} -> {Ans("Y")}
      [] s.s = "SET_CHECK_LEVEL" -> {Ans("level")}
      [] s.s \in {"SET_TRUST_VALUE", "SET_TRUST_DEPTH", "SET_TRUST_REGEXP"} -> {NoAnswer}
      [] s.s = "QUIT" -> {Ans("quit")}
      [] OTHER -> {}

GenCardKey_action(s) ==
    CASE s.s = "DO_ADMIN" -> {Ans("admin")}
      [] s.s = "COMMAND" -> {Ans("generate")}
      [] s.s \in {"NAME", "EMAIL", "EXPIRE", "COMMENT"} -> {Ans(s.s)}
      [] s.s = "BACKUP" -> {Ans(IF sc.backup THEN "Y" ELSE "N")}
      [] s.s \in {"REPLACE", "SAVE"} -> {Ans("Y")}
      [] s.s \in {"SIZE", "SIZE2", "SIZE3"} -> {Ans("size")}
      [] s.s = "QUIT" -> {Ans("quit")}
      [] OTHER -> {NoAnswer}

AddUserID_action(s) ==
    CASE s.s = "COMMAND" -> {Ans("adduid")}
      [] s.s \in {"NAME", "EMAIL", "COMMENT"} -> {Ans(s.s)}
      [] s.s = "QUIT" -> {Ans("quit")}
      [] s.s = "SAVE" -> {Ans("Y")}
      [] OTHER -> {NoAnswer}

SetOwnerTrust_action(s) ==
    CASE s.s = "COMMAND" -> {Ans("trust")}
      [] s.s = "VALUE" -> {Ans(truststrings[sc.trust + 1])}
      [] s.s \in {"REALLY_ULTIMATE", "SAVE"} -> {Ans("Y")}
      [] s.s = "QUIT" -> {Ans("quit")}
      [] OTHER -> {NoAnswer}

SetExpiryTime_action(s) ==
    CASE s.s = "COMMAND" -> {Ans("expire")}
      [] s.s = "DATE" -> {Ans("EXPIRE")}
      [] s.s = "QUIT" -> {Ans("quit")}
      [] s.s = "SAVE" -> {Ans("Y")}
      [] OTHER -> {NoAnswer}

action(s) == CASE sc.kind = "sign" -> SignKey_action(s)
               [] sc.kind = "gencard" -> GenCardKey_action(s)
               [] sc.kind = "adduid" -> AddUserID_action(s)
               [] sc.kind = "ownertrust" -> SetOwnerTrust_action(s)
               [] sc.kind = "expire" -> SetExpiryTime_action(s)

\* edit_interactor_callback_impl, without an error from before (a callback
\* that returned one is not called again): an error status or an error of
\* nextState or action makes it fail; a new state is followed by its answer;
\* in the old state nothing is written.
edit_interactor_callback_impl(e) ==
    IF status_to_error(e) \/ nextState(e) = {} THEN [state |-> St("ERROR"), answers |-> {}]
    ELSE LET s == CHOOSE t \in nextState(e) : TRUE
         IN [state |-> s, answers |-> IF s = state THEN {NoAnswer} ELSE action(s)]

\* The callback gets the line.  gpg waits for ever when it asked and
\* nothing is written; an error ends the operation.
Callback ==
    /\ over = "no" /\ event # "none"
    /\ LET r == edit_interactor_callback_impl(event)
       IN IF r.answers = {}
          THEN /\ state' = St("ERROR") /\ error' = TRUE /\ over' = "failed"
               /\ UNCHANGED <<nextId, backupFile, answer>>
          ELSE /\ state' = r.state
               /\ answer' \in r.answers
               /\ nextId' = IF answer'.text = "uid" THEN nextId + 1 ELSE nextId
               /\ backupFile' = (backupFile \/ r.state.s = "BACKUP_KEY_CREATED")
               /\ over' = IF IsPrompt(event) /\ answer' = NoAnswer THEN "stuck" ELSE "no"
               /\ UNCHANGED error
    /\ event' = IF over' = "no" /\ IsPrompt(event) THEN "none" ELSE event
    /\ key' = [key EXCEPT !.asked = event]
    /\ UNCHANGED sc

-----------------------------------------------------------------------------
(* gpg *)

\* The questions between the sign command and the signature.
SignQuestions(stage) ==
    CASE stage <= 1 /\ key.local # {} /\ "exportable" \in key.opts ->
             {"sign_uid.local_promote_okay"}
      [] stage <= 2 /\ "trust" \in key.opts -> {"trustsign_prompt.trust_value"}
      [] stage <= 3 /\ sc.asklevel -> {"sign_uid.class"}
      [] OTHER -> {"sign_uid.okay"}
StartSigning == SignQuestions(1) \cup {"ALREADY_SIGNED"}

SignOptions(c) == CASE c = "lsign" -> {} [] c = "sign" -> {"exportable"}
                    [] c = "lnrsign" -> {"nonrevocable"}
                    [] c = "nrsign" -> {"exportable", "nonrevocable"}
                    [] c = "ltsign" -> {"trust"} [] c = "tsign" -> {"exportable", "trust"}
                    [] c = "ltnrsign" -> {"nonrevocable", "trust"}
                    [] c = "tnrsign" -> {"exportable", "nonrevocable", "trust"}
SignCommands == {"lsign", "sign", "lnrsign", "nrsign", "ltsign", "tsign", "ltnrsign", "tnrsign"}

\* What gpg does after answer a to question q: the events that may follow
\* ("end": it exits) and what it has done.
At(evs, k) == [events |-> evs, key |-> k]

AfterPrompt(a) ==
    CASE a.text = "adduid" -> At({"keygen.name"}, key)
      [] a.text = "trust" -> At({"edit_ownertrust.value"}, key)
      [] a.text = "expire" -> At({"keygen.valid"}, key)
      [] a.text = "uid" -> At({"keyedit.prompt"}, [key EXCEPT !.selected = @ \cup {a.n}])
      [] a.text = "quit" -> At(IF key.modified THEN {"keyedit.save.okay"} ELSE {"end"}, key)
      [] a.text \in SignCommands ->
            LET k == [key EXCEPT !.opts = SignOptions(a.text),
                                 !.local = sc.local \cap (IF key.selected = {} THEN 1..sc.nuids
                                                          ELSE key.selected)]
            IN At(IF sc.nuids > 1 /\ key.selected = {} THEN {"keyedit.sign_all.okay"}
                  ELSE {"SIGN"}, k)

AfterCardPrompt(a) ==
    CASE a.text = "admin" -> At({"cardedit.prompt"}, [key EXCEPT !.admin = TRUE])
      [] a.text = "generate" /\ key.admin -> At({"cardedit.genkeys.backup_enc", "SC_OP_FAILURE"}, key)
      [] a.text = "quit" -> At({"end"}, key)

Card == sc.kind = "gencard"

After(q, a) ==
    CASE q = "keyedit.prompt" -> AfterPrompt(a)
      [] q = "keygen.name" -> At({"keygen.name", "keygen.email"}, key)
      [] q = "keygen.email" -> At({"keygen.email", "keygen.comment"}, key)
      [] q = "keygen.comment" /\ ~Card ->
            At({"keyedit.prompt", "MISSING_PASSPHRASE", "keygen.comment"},
               [key EXCEPT !.modified = TRUE])
      [] q = "keygen.valid" /\ ~Card ->
            At({"keyedit.prompt", "keygen.valid", "MISSING_PASSPHRASE"},
               [key EXCEPT !.modified = TRUE])
      [] q = "edit_ownertrust.value" ->
            At({IF a.text = "5" THEN "edit_ownertrust.set_ultimate.okay" ELSE "keyedit.prompt"},
               [key EXCEPT !.trust = a.text])
      [] q = "edit_ownertrust.set_ultimate.okay" -> At({"keyedit.prompt"}, key)
      [] q = "keyedit.sign_all.okay" -> At(IF a.text = "Y" THEN {"SIGN"} ELSE {"keyedit.prompt"}, key)
      [] q = "sign_uid.local_promote_okay" -> At(SignQuestions(2), key)
      [] q = "sign_uid.class" -> At(SignQuestions(4), key)
      [] q = "sign_uid.okay" ->
            At({"keyedit.prompt", "MISSING_PASSPHRASE"},
               [key EXCEPT !.modified = TRUE,
                           !.signed = IF key.selected = {} THEN 1..sc.nuids ELSE key.selected])
      [] q = "keyedit.save.okay" -> At({"end"}, [key EXCEPT !.saved = TRUE])
      [] q = "cardedit.prompt" -> AfterCardPrompt(a)
      [] q = "cardedit.genkeys.backup_enc" ->
            At({"cardedit.genkeys.replace_keys", "cardedit.genkeys.size"},
               [key EXCEPT !.backup = (a.text = "Y")])
      [] q = "cardedit.genkeys.replace_keys" -> At({"cardedit.genkeys.size"}, key)
      [] q = "cardedit.genkeys.size" ->
            At(IF key.sizes = 2 THEN {"keygen.valid"} ELSE {"cardedit.genkeys.size", "keygen.valid"},
               [key EXCEPT !.sizes = @ + 1])
      [] q = "keygen.valid" /\ Card -> At({"keygen.name"}, key)
      [] q = "keygen.comment" /\ Card ->
            At({IF key.backup THEN "BACKUP_KEY_CREATED" ELSE "KEY_CREATED", "SC_OP_FAILURE"}, key)
      [] q = "BACKUP_KEY_CREATED" -> At({"KEY_CREATED"}, key)
      [] q = "KEY_CREATED" -> At({"cardedit.prompt"}, [key EXCEPT !.saved = TRUE])
      [] q = "CARDCTRL" -> At({"cardedit.prompt"}, key)
      [] q = "OTHER" -> At({"keyedit.prompt"}, key)

\* gpg got its answer, or goes on after a line that was no question.
Gpg == /\ over = "no" /\ key.asked # "none"
       /\ LET r == After(key.asked, answer)
          IN \E e \in r.events :
               /\ key' = [r.key EXCEPT !.asked = "none"]
               /\ IF e = "end" THEN over' = "ok" /\ event' = "none"
                  ELSE over' = over /\ event' = e
       /\ answer' = NoAnswer
       /\ UNCHANGED <<sc, state, error, nextId, backupFile>>

\* gpg starts to sign: the first question, or the key is signed already.
GpgSigns == /\ event = "SIGN"
            /\ event' \in StartSigning
            /\ UNCHANGED <<sc, state, error, nextId, backupFile, answer, key, over>>

Init == /\ sc \in Scenarios
        /\ state = St("START") /\ error = FALSE /\ nextId = 1 /\ backupFile = FALSE
        /\ event \in IF sc.kind = "gencard" THEN {"CARDCTRL"} ELSE {"OTHER", "keyedit.prompt"}
        /\ answer = NoAnswer /\ over = "no"
        /\ key = [asked |-> "none", selected |-> {}, signed |-> {}, opts |-> {}, local |-> {},
                  trust |-> "0", modified |-> FALSE, saved |-> FALSE, admin |-> FALSE,
                  backup |-> FALSE, sizes |-> 0]

Next == (event # "SIGN" /\ key.asked = "none" /\ Callback) \/ Gpg \/ GpgSigns

Spec == Init /\ [][Next]_vars

-----------------------------------------------------------------------------
\* The answers a question of gpg admits.
Admits(q, a) ==
    CASE q \in BoolPrompts \/ q = "cardedit.genkeys.backup_enc" -> a.text \in {"Y", "N"}
      [] q = "keyedit.prompt" -> a.text \in {"adduid", "trust", "expire", "quit", "uid"} \cup SignCommands
      [] q = "cardedit.prompt" -> a.text \in {"admin", "generate", "quit"}
      [] q = "keygen.name" -> a.text = "NAME"
      [] q = "keygen.email" -> a.text = "EMAIL"
      [] q = "keygen.comment" -> a.text = "COMMENT"
      [] q = "keygen.valid" -> a.text = "EXPIRE"
      [] q = "edit_ownertrust.value" -> a.text \in {"1", "2", "3", "4", "5"}
      [] q = "cardedit.genkeys.size" -> a.text = "size"
      [] q = "sign_uid.class" -> a.text = "level"
      [] OTHER -> FALSE

\* Whatever an interactor writes is an answer to the question that gpg
\* asks at that moment, and nothing is written when gpg did not ask.
AnswersFit ==
    answer # NoAnswer => key.asked # "none" /\ IsPrompt(key.asked) /\ Admits(key.asked, answer)

\* When the dialogue ends without an error, gpg has done what the
\* application asked for: it signed exactly the chosen user ids with the
\* chosen options, stored the user id or the date, set the trust that was
\* meant, made the keys on the right card and the backup if one was wanted.
DoneAsAsked ==
    over = "ok" =>
       CASE sc.kind = "sign" -> /\ key.signed = (IF signAll THEN 1..sc.nuids
                                                 ELSE {sc.uids[i] + 1 : i \in DOMAIN sc.uids})
                                /\ key.saved /\ key.opts = sc.opts
         [] sc.kind = "ownertrust" -> key.trust = truststrings[sc.trust + 1]
         [] sc.kind = "gencard" -> /\ key.saved /\ key.backup = sc.backup
                                   /\ backupFile = sc.backup /\ sc.serial # "other"
         [] OTHER -> key.saved

\* gpg never waits: every question is answered or the operation fails,
\* except for a trust signature on chosen user ids, whose answers are not
\* implemented, and a chosen user id that has a local signature, where the
\* second confirmation finds the interactor in the state of the first.
Unanswered ==
    /\ sc.kind = "sign" /\ sc.uids # <<>> /\ sc.nuids > 1
    /\ "trust" \in sc.opts \/ ("exportable" \in sc.opts /\ sc.local # {})
NeverStuck == over = "stuck" => Unanswered

InteractorsInv == AnswersFit /\ DoneAsAsked /\ NeverStuck

=============================================================================
