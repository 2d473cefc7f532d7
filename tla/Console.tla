------------------------------ MODULE Console -------------------------------
(***************************************************************************)
(* The user's side of chat_client: cli::StdOutputWriter, which draws the   *)
(* lists of messages with escape sequences above the line where the user   *)
(* types, cli::StdInputReader, and the part of chat::Client between them.  *)
(*                                                                         *)
(* The kernel's part is the terminal (as xterm does it: the right margin   *)
(* is left when the next character comes, and the cursor is saved with     *)
(* it), which echoes what is typed at once and hands it over by lines.     *)
(* Its size does not change.  A text is a sequence of characters.          *)
(*                                                                         *)
(* What a handler prints goes through the buffer of stdout, which is       *)
(* written when it is full, so that the user may type in the middle of a   *)
(* drawing.  The terminal gets it text by text.  A write may also end in   *)
(* the middle of a text or of an escape sequence: of a drawing into which  *)
(* something is typed the properties say nothing, wherever it was typed,   *)
(* and the next drawing is right whatever the screen holds.                *)
(***************************************************************************)
EXTENDS Naturals, Sequences, SequencesExt

CONSTANTS
  Rows, Cols,      \* the size of the terminal
  MESSAGE_LIMIT,
  Character,       \* what can be printed, and
  Key,             \* what the user types of it
  Texts,           \* what the server sends, as OnTextMessage and
                   \* OnClientLeaveMessage put it
  Counts,          \* texts of the number of clients
  Info, Connecting, Connected, You, Error,  \* texts of the client
  MaxLog,          \* bound: messages written
  MaxTyped,        \* bound: characters typed
  MaxFlushes       \* bound: Ctrl+D in a line that is not empty

NL == "\n"
SP == " "

ASSUME ConsoleAssumption ==
  /\ {Rows, Cols, MESSAGE_LIMIT} \subseteq Nat \ {0} /\ Rows > 2
  /\ {MaxLog, MaxTyped, MaxFlushes} \subseteq Nat
  /\ Texts \union Counts \union {Info, Connecting, Connected, You, Error} \subseteq Seq(Character)
  /\ {SP, NL} \union Key \subseteq Character /\ NL \notin Key
  \* What the client says of its own is in one line.
  /\ \A text \in Counts \union {Info, Connecting, Connected} : NL \notin ToSet(text)

VARIABLES
  screen,     \* the terminal: its rows from the top, row and col of the cursor
  saved,      \* the terminal: the cursor that was saved
  writer,     \* the fields of StdOutputWriter
  output,     \* what it has printed and the terminal has not got
  connected,  \* client_connection_->IsConnected()
  line,       \* the terminal: what is typed of a line,
  input,      \* the lines that can be read,
  eof,        \* and the end of file after them
  closed,     \* the loop was stopped
  \* history
  typed,      \* all that was typed, but Ctrl+D
  log,        \* all messages that were written
  sent,       \* all messages that were sent, each in a line
  missed,     \* a line was read before the connection
  ahead,      \* something was typed while a line waited to be read and erased,
              \* or into a drawing
  torn,       \* something was typed into the last drawing
  flushes,    \* Ctrl+D in a line
  strayed     \* something was typed while the cursor was away or about to be moved

terminal == <<screen, saved, output>>
history == <<typed, log, sent, missed, ahead, torn, flushes, strayed>>
vars == <<terminal, writer, connected, line, input, eof, closed, history>>

-----------------------------------------------------------------------------
(* The terminal.                                                           *)

Char(row, c) == IF c <= Len(row) THEN row[c] ELSE SP

\* A row with a character put in column c.
Written(row, c, char) ==
  [i \in 1..(IF c > Len(row) THEN c ELSE Len(row)) |->
     IF i = c THEN char ELSE Char(row, i)]

NewLine(t) ==
  IF t.row < Rows
  THEN [t EXCEPT !.row = @ + 1, !.col = 0]
  ELSE [t EXCEPT !.rows = Append(Tail(@), <<>>), !.col = 0]

PutChar(t, char) ==
  LET at == IF t.col = Cols THEN NewLine(t) ELSE t
  IN IF char = NL
     THEN NewLine(t)
     ELSE [at EXCEPT !.rows[at.row] = Written(@, at.col + 1, char),
                     !.col = @ + 1]

Put(t, text) == FoldLeft(PutChar, t, text)

\* "\e[1F": at the top the cursor stays.
CursorUp(t) == [t EXCEPT !.row = IF @ > 1 THEN @ - 1 ELSE 1, !.col = 0]

\* "\e[2K"
EraseLine(t) == [t EXCEPT !.rows[t.row] = <<>>]

\* "\e[1M": the lines below move up.
RemoveLine(t) == [t EXCEPT !.rows = Append(RemoveAt(@, t.row), <<>>)]

-----------------------------------------------------------------------------
(* StdOutputWriter.                                                        *)

\* A text cut to the width of the screen.
Chunks(text) ==
  IF text = <<>>
  THEN <<<<SP>>>>
  ELSE [i \in 1..((Len(text) + Cols - 1) \div Cols) |->
          SubSeq(text, (i - 1) * Cols + 1,
                 IF i * Cols < Len(text) THEN i * Cols ELSE Len(text))]

PrintPart(t, part) == Put(EraseLine(CursorUp(t)), part)

\* Faulty variant: push_back.
PrintTextInOrder(t, text) == FoldLeft(PrintPart, t, Chunks(text))

\* push_front: the last part is printed first, the others above it.
PrintText(t, text) == FoldLeft(PrintPart, t, Reverse(Chunks(text)))

\* What stdout gets: a text, or the escape sequences of that name.
Printed(text) == [do |-> "print", text |-> text]
Escape(do) == [do |-> do, text |-> <<>>]

Upwards(w) ==
  <<<<SP>>, w.info_line_, w.connection_state_line_, w.clients_count_line_, <<SP>>>> \o w.messages_

\* Faulty variant: the cursor is left where the last text was printed.
UpdateScreenNoRestore(w) ==
  <<Escape("save")>> \o [i \in DOMAIN Upwards(w) |-> Printed(Upwards(w)[i])]

UpdateScreen(w) ==
  <<Escape("save")>> \o [i \in DOMAIN Upwards(w) |-> Printed(Upwards(w)[i])]
    \o <<Escape("restore")>>

\* The line that was entered is above the cursor.
ResetInputLine(w) == <<Escape("reset")>> \o UpdateScreen(w)

\* Faulty variant: the line is not removed.
EraseEnteredNot(t) == CursorUp(t)

EraseEntered(t) == RemoveLine(CursorUp(t))

\* Faulty variant: the limit is tested too late.
WriteMessageOverLimit(w, message) ==
  [w EXCEPT !.messages_ =
     <<message>> \o (IF Len(@) > MESSAGE_LIMIT THEN Front(@) ELSE @)]

WriteMessage(w, message) ==
  [w EXCEPT !.messages_ =
     <<message>> \o (IF Len(@) >= MESSAGE_LIMIT THEN Front(@) ELSE @)]

\* stderr
WriteError(t, error) == NewLine(Put(NewLine(t), error))

\* As many newlines as there are rows, from whatever row the shell leaves the
\* cursor in.
Cleared == [rows |-> [i \in 1..Rows |-> <<>>], row |-> Rows, col |-> 0]

-----------------------------------------------------------------------------

TypeOK ==
  /\ DOMAIN screen.rows = 1..Rows
  /\ \A i \in 1..Rows : Len(screen.rows[i]) <= Cols
  /\ {screen.row, saved.row} \subseteq 1..Rows /\ {screen.col, saved.col} \subseteq 0..Cols
  /\ Len(writer.messages_) <= MESSAGE_LIMIT
  /\ {connected, eof, closed, missed, ahead, torn, strayed} \subseteq BOOLEAN
  /\ line \in Seq(Key) /\ {input, typed} \subseteq Seq(Key \union {NL})

\* The constructors of StdOutputWriter and Client, which have printed already.
Init ==
  /\ writer = [messages_ |-> <<>>, clients_count_line_ |-> <<>>,
               connection_state_line_ |-> Connecting, info_line_ |-> Info]
  /\ LET w0 == [writer EXCEPT !.info_line_ = <<>>,
                              !.connection_state_line_ = <<>>]
         w1 == [w0 EXCEPT !.info_line_ = Info]
     IN output = ResetInputLine(w0) \o UpdateScreen(w1) \o UpdateScreen(writer)
  /\ screen = Cleared /\ saved = [row |-> 1, col |-> 0]
  /\ connected = FALSE /\ closed = FALSE
  /\ line = <<>> /\ input = <<>> /\ eof = FALSE
  /\ typed = <<>> /\ log = <<>> /\ sent = <<>>
  /\ missed = FALSE /\ ahead = FALSE /\ torn = FALSE /\ strayed = FALSE
  /\ flushes = 0

-----------------------------------------------------------------------------
(* The user: the terminal echoes a character, and Enter, when it is typed, *)
(* where the cursor is.                                                    *)
(* What is typed after the end of file is not for this program.            *)

\* In the middle of a drawing: the cursor will come back to where it was saved.
Away == output # <<>> /\ Head(output).do \in {"print", "restore"}

\* The cursor is about to be moved to a line that was entered.
Resetting == output # <<>> /\ Head(output).do = "reset"

Typing ==
  /\ ~closed /\ ~eof
  /\ ahead' = (ahead \/ input # <<>> \/ Resetting \/ Away)
  /\ torn' = (torn \/ Away)
  /\ strayed' = (strayed \/ Resetting \/ Away)
  /\ UNCHANGED <<saved, output>>

Type(key) ==
  /\ Typing /\ Len(typed) < MaxTyped
  /\ line' = Append(line, key)
  /\ typed' = Append(typed, key)
  /\ screen' = PutChar(screen, key)
  /\ UNCHANGED <<writer, connected, input, eof, closed, log, sent, missed, flushes>>

Enter ==
  /\ Typing /\ Len(typed) < MaxTyped
  /\ input' = input \o Append(line, NL)
  /\ line' = <<>>
  /\ typed' = Append(typed, NL)
  /\ screen' = NewLine(screen)
  /\ UNCHANGED <<writer, connected, eof, closed, log, sent, missed, flushes>>

\* In an empty line it is the end of file, in another it enters the line.
CtrlD ==
  /\ Typing
  /\ line # <<>> => flushes < MaxFlushes
  /\ flushes' = IF line = <<>> THEN flushes ELSE flushes + 1
  /\ input' = input \o line
  /\ eof' = (line = <<>>)
  /\ line' = <<>>
  /\ UNCHANGED <<screen, writer, connected, closed, typed, log, sent, missed>>

User == (\E key \in Key : Type(key)) \/ Enter \/ CtrlD

-----------------------------------------------------------------------------
(* What the terminal gets.                                                 *)

Writes(do) ==
  /\ output # <<>> /\ Head(output).do = do
  /\ output' = Tail(output)
  /\ UNCHANGED <<writer, connected, line, input, eof, closed, typed, log, sent, missed,
                 ahead, flushes, strayed>>

\* "\e[s"
SaveCursor ==
  /\ Writes("save")
  /\ saved' = [row |-> screen.row, col |-> screen.col]
  /\ torn' = FALSE
  /\ UNCHANGED screen

PrintNext ==
  /\ Writes("print")
  /\ screen' = PrintText(screen, Head(output).text)
  /\ UNCHANGED <<saved, torn>>

\* "\e[u"
RestoreCursor ==
  /\ Writes("restore")
  /\ screen' = [screen EXCEPT !.row = saved.row, !.col = saved.col]
  /\ UNCHANGED <<saved, torn>>

EraseInput ==
  /\ Writes("reset")
  /\ screen' = EraseEntered(screen)
  /\ UNCHANGED <<saved, torn>>

Write == SaveCursor \/ PrintNext \/ RestoreCursor \/ EraseInput

-----------------------------------------------------------------------------
(* The program: a handler runs when all that was printed is written.       *)

Handling == ~closed /\ output = <<>>

Shows(w) ==
  /\ writer' = w /\ output' = UpdateScreen(w)
  /\ UNCHANGED <<screen, saved, torn, strayed>>

OnTextMessage(text) ==
  /\ Handling /\ connected /\ Len(log) < MaxLog
  /\ Shows(WriteMessage(writer, text))
  /\ log' = Append(log, text)
  /\ UNCHANGED <<connected, line, input, eof, closed, typed, sent, missed, ahead, flushes>>

OnServerInfoMessage(text) ==
  /\ Handling /\ connected
  /\ Shows([writer EXCEPT !.clients_count_line_ = text])
  /\ UNCHANGED <<connected, line, input, eof, closed, typed, log, sent, missed, ahead, flushes>>

OnConnected ==
  /\ Handling /\ ~connected
  /\ connected' = TRUE
  /\ Shows([writer EXCEPT !.connection_state_line_ = Connected])
  /\ UNCHANGED <<line, input, eof, closed, typed, log, sent, missed, ahead, flushes>>

\* OnConnectionTimeout, OnConnectionError and OnConnectionClosed.
ConnectionEnds ==
  /\ Handling
  /\ closed' = TRUE
  /\ screen' = WriteError(screen, Error)
  /\ UNCHANGED <<saved, output, writer, connected, line, input, eof, history>>

\* Client::OnMessageRead.
OnMessageRead(message) ==
  /\ IF connected
     THEN LET w == WriteMessage(writer, You \o message)
          IN /\ writer' = w
             /\ output' = ResetInputLine(writer) \o UpdateScreen(w)
             /\ log' = Append(log, You \o message)
             /\ sent' = sent \o Append(message, NL)
             /\ UNCHANGED missed
     ELSE /\ output' = ResetInputLine(writer)
          /\ missed' = TRUE
          /\ UNCHANGED <<writer, log, sent>>
  /\ UNCHANGED closed

OnReaderClosed == closed' = TRUE /\ UNCHANGED <<output, writer, log, sent, missed>>

\* Faulty variant: the buffer is emptied for each line.
OnInLastLine ==
  /\ Handling /\ (input # <<>> \/ eof)
  /\ IF eof
     THEN OnReaderClosed
     ELSE /\ Len(log) < MaxLog
          /\ LET end == SelectLastInSeq(Front(input), LAMBDA c : c = NL)
             IN OnMessageRead(SubSeq(input, end + 1, Len(input) - 1))
  /\ input' = <<>>
  /\ UNCHANGED <<screen, saved, connected, line, eof, typed, ahead, torn, flushes, strayed>>

\* All that can be read makes one message, without its last character; at the
\* end of file it is dropped.
OnIn ==
  /\ Handling /\ (input # <<>> \/ eof)
  /\ IF eof
     THEN OnReaderClosed
     ELSE Len(log) < MaxLog /\ OnMessageRead(Front(input))
  /\ input' = <<>>
  /\ UNCHANGED <<screen, saved, connected, line, eof, typed, ahead, torn, flushes, strayed>>

Handler ==
  \/ \E text \in Texts : OnTextMessage(text)
  \/ \E text \in Counts : OnServerInfoMessage(text)
  \/ OnConnected
  \/ OnIn
  \/ ConnectionEnds

Next == User \/ Write \/ Handler

Spec == Init /\ [][Next]_vars

-----------------------------------------------------------------------------

\* A picture with another text above it.
Above(picture, text) == Chunks(text) \o picture

(***************************************************************************)
(* README: "Incoming messages are printed above."  Whenever all that the  *)
(* program had to draw is drawn, the rows above the cursor show the last   *)
(* MESSAGE_LIMIT messages in the order they were written, each cut to the  *)
(* width, with the client's lines under them; in the first row only as     *)
(* long as all of it fits, because texts that are above it are printed     *)
(* there one over the other (StdOutputWriter.cpp:23-49, 95-122).  Unless   *)
(* something was typed into this drawing; what was typed into earlier ones *)
(* is drawn over.  For texts in one line: when two lines are read at once, *)
(* their newline is printed too.                                           *)
(***************************************************************************)
Picture ==
  LET shown == IF Len(log) > MESSAGE_LIMIT THEN MESSAGE_LIMIT ELSE Len(log)
      upwards == <<<<SP>>, writer.info_line_, writer.connection_state_line_,
                   writer.clients_count_line_, <<SP>>>> \o
                 [i \in 1..shown |-> log[Len(log) + 1 - i]]
  IN FoldLeft(Above, <<>>, upwards)

PictureIsShown ==
  LET above == screen.row - 1
  IN \E picture \in {Picture} :
       \A i \in 1..above :
         LET j == Len(picture) - above + i
         IN j > 0 /\ (i = 1 => j = 1) => screen.rows[i] = picture[j]

OneLineTexts == \A i \in DOMAIN log : NL \notin ToSet(log[i])

PrintedAbove ==
  [][output # <<>> /\ output' = <<>> /\ ~torn' => (OneLineTexts => PictureIsShown)']_vars

\* The place of the line that the user types.
Home == IF Away THEN saved ELSE [row |-> screen.row, col |-> screen.col]

(***************************************************************************)
(* What the user has typed of a line stands in a row of its own, and the   *)
(* cursor is behind it or will be when the drawing that is under way is    *)
(* written; a line that was entered is erased from there (Client.cpp:62-63,*)
(* StdOutputWriter.cpp:26, 38, 61-65).  As long as no message has a        *)
(* newline in it and the user waits for a line to be read and erased       *)
(* before typing on, uses Ctrl+D only to exit, types no more than fits in  *)
(* the row, and types nothing into a drawing, which the terminal echoes    *)
(* where it is drawn: a drawing of less than the 1024 bytes of stdout's    *)
(* buffer is in one write, longer ones are not.                            *)
(* As long as nothing was typed into a drawing, that row stays at the      *)
(* bottom of the screen: it is one of the last two, and every Ctrl+D in a  *)
(* line, after which the cursor is moved up although no line was fed,      *)
(* takes it up by one row at most.                                         *)
(***************************************************************************)
InputShown ==
  /\ ~closed /\ ~ahead /\ flushes = 0 /\ OneLineTexts /\ Len(line) <= Cols =>
       screen.rows[Home.row] = line /\ Home.col = Len(line)
  /\ ~strayed => Home.row + flushes + 1 >= Rows

(***************************************************************************)
(* Once connected, everything that is typed is sent or waits, and nothing  *)
(* twice or out of order, however lines are gathered in messages, until    *)
(* the end of the input (StdInputReader.cpp:29-52).                        *)
(***************************************************************************)
SentAsTyped ==
  ~closed /\ ~missed /\ flushes = 0 => sent \o input \o line = typed
=============================================================================
