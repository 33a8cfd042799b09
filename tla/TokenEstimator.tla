--------------------------- MODULE TokenEstimator ---------------------------
(***************************************************************************)
(* The estimates requests are admitted by: core/token_estimator.py of the   *)
(* server, _estimate_tokens and _estimate_output of the SDK's scheduler.    *)
(* A text is its length in characters and in the tokens of the external     *)
(* tokenizer, which may be missing.  Factors are in tenths: int() of these  *)
(* products is their exact floor.                                           *)
(***************************************************************************)
EXTENDS Integers, Sequences, FiniteSetsExt

CONSTANTS
    Texts,        \* texts: a set of [chars, tokens]
    Roles,        \* the texts of the roles
    ReprChars,    \* characters str() adds to the text of a list of parts
    MaxMessages,  \* bound: messages of a request
    MaxTokens     \* the values of max_tokens, NoMaxTokens among them

NoMaxTokens == -1

ASSUME EstimatorAssumption ==
    /\ \A t \in Texts \cup Roles : t.chars \in Nat /\ t.tokens \in 0..t.chars
    /\ ReprChars \in Nat /\ MaxMessages \in Nat
    /\ MaxTokens \subseteq Nat \cup {NoMaxTokens}

VARIABLES
    messages,   \* the request: Seq of [role, text, images, list], where a
                \*   content that is a list has one text and images
    maxTokens,  \* max_tokens
    encoder,    \* has the tokenizer an encoder for the model, or any?
    task,       \* task_type
    family      \* CHARS_PER_TOKEN of the model, in tenths

estimateVars == <<messages, maxTokens, encoder, task, family>>

EstimateInit ==
    /\ messages = <<>> /\ maxTokens \in MaxTokens /\ encoder \in BOOLEAN
    /\ task \in {"chat", "code", "summarization"} /\ family \in {35, 38, 40}

Contents ==
    {[text |-> t, images |-> 0, list |-> FALSE] : t \in Texts}
    \cup {[text |-> t, images |-> n, list |-> TRUE] : t \in Texts, n \in 0..1}

AddMessage(role, content) ==
    /\ Len(messages) < MaxMessages
    /\ messages' = Append(messages, [role |-> role, text |-> content.text,
                              images |-> content.images, list |-> content.list])
    /\ UNCHANGED <<maxTokens, encoder, task, family>>

EstimateNext == \E r \in Roles, c \in Contents : AddMessage(r, c)
EstimateSpec == EstimateInit /\ [][EstimateNext]_estimateVars

-----------------------------------------------------------------------------
AtLeastOne(n) == IF n < 1 THEN 1 ELSE n
Capped(n, cap) == IF n > cap THEN cap ELSE n

(* The sum of what each message costs.                                      *)
InAll(costs) == MapThenSumSet(LAMBDA i : costs[i], DOMAIN messages)

(* count_tokens, with _estimate_by_chars where there is no encoder.         *)
CountTokens(text) ==
    IF text.chars = 0 THEN 0
    ELSE IF encoder THEN text.tokens
    ELSE AtLeastOne((10 * text.chars) \div family)

(* estimate_messages_tokens *)
MessageTokens(m) == 4 + CountTokens(m.text) + 85 * m.images + CountTokens(m.role)
InputTokens == InAll([i \in DOMAIN messages |-> MessageTokens(messages[i])]) + 3

Multiplier == [chat |-> 15, code |-> 20, summarization |-> 3]

(* Faulty variant: max_tokens is shared with the prompt.                    *)
OutputTokens_Shared(input) ==
    LET estimated == (input * Multiplier[task]) \div 10
    IN AtLeastOne(IF maxTokens = NoMaxTokens THEN estimated
                  ELSE Capped(estimated, maxTokens - input))

(* estimate_output_tokens *)
OutputTokens(input) ==
    LET estimated == (input * Multiplier[task]) \div 10
    IN AtLeastOne(IF maxTokens = NoMaxTokens THEN estimated
                                             ELSE Capped(estimated, maxTokens))

TotalTokens == ((InputTokens + OutputTokens(InputTokens)) * 11) \div 10

(* _estimate_tokens counts texts only; without an encoder, the characters   *)
(* of the contents.                                                         *)
SdkTokens(m) == IF m.list THEN 4 ELSE 4 + m.text.tokens
SdkChars(m) == IF m.list THEN m.text.chars + ReprChars ELSE m.text.chars

SdkInputTokens ==
    IF encoder
    THEN InAll([i \in DOMAIN messages |-> SdkTokens(messages[i])]) + 3
    ELSE AtLeastOne(InAll([i \in DOMAIN messages |-> SdkChars(messages[i])]) \div 4)

(* _estimate_output, for which max_tokens = 0 is none at all.               *)
SdkOutputTokens(input) ==
    AtLeastOne(IF maxTokens \in {NoMaxTokens, 0} THEN (input * 15) \div 10
               ELSE Capped((input * 15) \div 10, maxTokens))

SdkTotalTokens == ((SdkInputTokens + SdkOutputTokens(SdkInputTokens)) * 11) \div 10

(* A longer request is never estimated at less, by either package, so that  *)
(* history added to a prompt cannot make it fit a bucket it did not fit;    *)
(* and where both count with an encoder, the server, which counts roles and *)
(* images too, never reserves less than the SDK does for a chat, unless     *)
(* max_tokens is 0, the server's "one token" and the SDK's "no limit"       *)
(* (token_estimator.py:104-197, scheduler.py:132-163, 248-250).             *)
EstimatesOrdered ==
    [][/\ TotalTokens' >= TotalTokens /\ SdkTotalTokens' >= SdkTotalTokens
       /\ InputTokens' >= InputTokens + 4 * (Len(messages') - Len(messages))
       /\ encoder /\ task # "summarization" /\ maxTokens # 0 =>
             TotalTokens' >= SdkTotalTokens']_estimateVars
=============================================================================
