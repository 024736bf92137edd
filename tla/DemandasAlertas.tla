-------------------------- MODULE DemandasAlertas --------------------------
(***************************************************************************)
(* Demands and the alerts of their deadlines: the edition of a demand and  *)
(* the attendance that settles it (mod_demandas), and the daily job that   *)
(* resolves and creates the alerts (jobs/demands.py). The edition reads    *)
(* the demand without a lock and compares, after its UPDATE, what it read  *)
(* with what the row has become. Classification by key words, catalogues,  *)
(* territorial scope and the export are left out.                          *)
(***************************************************************************)
EXTENDS Naturals

CONSTANTS
    Demandas, Resultados,
    Finais, Abertas,   \* the status that end a demand (status_demanda.final) and the others
    Inicial,           \* the status 'pendente' a demand is created with
    Edicoes,           \* requests on demands
    Pedidos,           \* the payloads: DemandPatch, and AttendanceIn as one with a result only
    Dias,              \* bound: the days that pass, 0..Dias
    Antecedencia,      \* lead_days of the job
    Nulo,              \* a column without value
    Manter             \* a field the payload does not carry

SituacoesD == Finais \cup Abertas
Prazos == 0 .. Dias

ASSUME DemandasAssumption ==
    /\ Finais \cap Abertas = {} /\ Inicial \in Abertas
    /\ Dias \in Nat /\ Antecedencia \in Nat
    /\ Nulo \notin Prazos \cup Resultados
    /\ Manter \notin SituacoesD \cup Resultados \cup Prazos \cup {Nulo}
    /\ Pedidos \subseteq [status : SituacoesD \cup {Manter},
                          resultado : Resultados \cup {Nulo, Manter},
                          prazo : Prazos \cup {Nulo, Manter}, observacao : {"sim", "nao"}]

VARIABLES
    demanda,    \* [Demandas -> the fields a movement records]
    movimento,  \* [Demandas -> what its last movement says it became, or Nulo]
    cruzada,    \* [Demandas -> {"nao", "sim"}]: history, an edition met a row other than it read
    edicao,     \* [Edicoes -> the state of a request]
    alertasPrazo, \* [Chaves -> {"sem", "aberto", "resolvido"}]: alerta_prazo
    hoje,       \* 0..Dias
    rodada,     \* the job: what its statements read
    emDia       \* {"sim", "nao"}: history, nothing changed since the last job began

varsDemandas == <<demanda, movimento, cruzada, edicao, alertasPrazo, hoje, rodada, emDia>>

\* The unique key of an alert within the tenant.
TiposAlerta == {"vencendo", "vencido"}
Chaves == Demandas \X TiposAlerta \X Prazos

EdicaoLivre == [pc |-> "livre", demanda |-> Nulo, lida |-> Nulo, pedido |-> Nulo]
RodadaParada == [pc |-> "parada", dia |-> 0, resolver |-> {}, criar |-> {}]

InitDemandas ==
    /\ demanda \in [Demandas -> [status : {Inicial}, resultado : {Nulo},
                                 prazo : Prazos \cup {Nulo}]]
    /\ movimento = [d \in Demandas |-> Nulo]
    /\ cruzada = [d \in Demandas |-> "nao"]
    /\ edicao = [r \in Edicoes |-> EdicaoLivre]
    /\ alertasPrazo = [c \in Chaves |-> "sem"]
    /\ hoje = 0 /\ emDia = "nao"
    /\ rodada = RodadaParada

-----------------------------------------------------------------------------
(* Requests *)

\* ensure and validate_references: the demand as it was then.
LerDemanda(r, d, pedido) ==
    /\ edicao[r].pc = "livre"
    /\ edicao' = [edicao EXCEPT ![r] = [pc |-> "lida", demanda |-> d,
                                        lida |-> demanda[d], pedido |-> pedido]]
    /\ UNCHANGED <<demanda, movimento, cruzada, alertasPrazo, hoje, rodada, emDia>>

Escrito(novo, antigo) == IF novo = Manter THEN antigo ELSE novo

\* UPDATE of the fields of the payload, on the row as it is by then.
Atualizada(d, pedido) ==
    [status |-> Escrito(pedido.status, demanda[d].status),
     resultado |-> Escrito(pedido.resultado, demanda[d].resultado),
     prazo |-> Escrito(pedido.prazo, demanda[d].prazo)]

\* Mutant. The result is required only of the edition that closes the demand.
AceitaSoNoEncerramento(lida, nova, pedido) ==
    lida.status # nova.status =>
        /\ pedido.observacao = "sim"
        /\ nova.status \in Finais => nova.resultado # Nulo

\* The checks of update, between what was read and what the row has become.
Aceita(lida, nova, pedido) ==
    lida # nova =>
        /\ lida.status # nova.status => pedido.observacao = "sim"
        /\ nova.status \in Finais => nova.resultado # Nulo

Cruzar(r) == cruzada' = IF edicao[r].lida = demanda[edicao[r].demanda] THEN cruzada
                        ELSE [cruzada EXCEPT ![edicao[r].demanda] = "sim"]
Encerrar(r) == edicao' = [edicao EXCEPT ![r] = [EdicaoLivre EXCEPT !.pc = "feita"]]

\* update: the row stays locked from the UPDATE to the commit; a check that
\* fails rolls the transaction back.
EditarDemanda(r) ==
    LET d == edicao[r].demanda
        lida == edicao[r].lida
        nova == Atualizada(d, edicao[r].pedido)
    IN
    /\ edicao[r].pc = "lida"
    /\ Encerrar(r)
    /\ UNCHANGED <<alertasPrazo, hoje, rodada>>
    /\ IF Aceita(lida, nova, edicao[r].pedido)
       THEN /\ demanda' = [demanda EXCEPT ![d] = nova]
            /\ movimento' = IF lida = nova THEN movimento
                            ELSE [movimento EXCEPT ![d] = nova]
            /\ Cruzar(r)
            /\ emDia' = IF nova = demanda[d] THEN emDia ELSE "nao"
       ELSE UNCHANGED <<demanda, movimento, cruzada, emDia>>

\* attendance: with a result, it is written on the demand, with a movement and
\* none of the checks of update.
AtenderDemanda(r) ==
    LET d == edicao[r].demanda
        nova == [demanda[d] EXCEPT !.resultado = edicao[r].pedido.resultado]
    IN
    /\ edicao[r].pc = "lida"
    /\ edicao[r].pedido.resultado \in Resultados
    /\ edicao[r].pedido.status = Manter /\ edicao[r].pedido.prazo = Manter
    /\ demanda' = [demanda EXCEPT ![d] = nova]
    /\ movimento' = [movimento EXCEPT ![d] = nova]
    /\ Cruzar(r)
    /\ emDia' = IF nova = demanda[d] THEN emDia ELSE "nao"
    /\ Encerrar(r)
    /\ UNCHANGED <<alertasPrazo, hoje, rodada>>

-----------------------------------------------------------------------------
(* The job, one transaction of two reads; only it writes alerts *)

EmPrazo(d) == demanda[d].status \notin Finais /\ demanda[d].prazo # Nulo

\* What an alert's type says of a demand on a day.
Cabe(tipo, prazo, dia) == IF tipo = "vencido" THEN prazo < dia
                          ELSE dia <= prazo /\ prazo <= dia + Antecedencia

\* The alert still says something true of its demand: the deadline of the
\* demand is compared, not the one the alert was created for.
Procede(c, dia) == EmPrazo(c[1]) /\ Cabe(c[2], demanda[c[1]].prazo, dia)

\* The first UPDATE: open alerts that no longer hold. Its effect waits for the commit.
ResolverAlertas ==
    /\ rodada.pc = "parada"
    /\ rodada' = [pc |-> "resolveu", dia |-> hoje, criar |-> {},
                  resolver |-> {c \in Chaves : alertasPrazo[c] = "aberto"
                                               /\ ~Procede(c, hoje)}]
    /\ emDia' = "sim"
    /\ UNCHANGED <<demanda, movimento, cruzada, edicao, alertasPrazo, hoje>>

\* The demands on or past their deadline, with the type of their alert.
AVencer(dia) ==
    {c \in Chaves : EmPrazo(c[1]) /\ c[3] = demanda[c[1]].prazo /\ Cabe(c[2], c[3], dia)}

ListarVencimentos ==
    /\ rodada.pc = "resolveu"
    /\ rodada' = [rodada EXCEPT !.pc = "listou", !.criar = AVencer(rodada.dia)]
    /\ UNCHANGED <<demanda, movimento, cruzada, edicao, alertasPrazo, hoje, emDia>>

\* INSERT ... ON CONFLICT DO NOTHING: a resolved alert of the same key stays so.
AlertasDepois ==
    [c \in Chaves |-> IF c \in rodada.criar /\ alertasPrazo[c] = "sem" THEN "aberto"
                      ELSE IF c \in rodada.resolver THEN "resolvido"
                      ELSE alertasPrazo[c]]

ConfirmarAlertas ==
    /\ rodada.pc = "listou"
    /\ alertasPrazo' = AlertasDepois
    /\ rodada' = RodadaParada
    /\ UNCHANGED <<demanda, movimento, cruzada, edicao, hoje, emDia>>

\* The worker is lost before the commit; the message comes back as a new round.
PerderRodada ==
    /\ rodada.pc \in {"resolveu", "listou"}
    /\ rodada' = RodadaParada
    /\ emDia' = "nao"
    /\ UNCHANGED <<demanda, movimento, cruzada, edicao, alertasPrazo, hoje>>

Amanhecer ==
    /\ hoje < Dias
    /\ hoje' = hoje + 1
    /\ emDia' = "nao"
    /\ UNCHANGED <<demanda, movimento, cruzada, edicao, alertasPrazo, rodada>>

-----------------------------------------------------------------------------
NextDemandas ==
    \/ \E r \in Edicoes :
          \/ \E d \in Demandas, pedido \in Pedidos : LerDemanda(r, d, pedido)
          \/ EditarDemanda(r) \/ AtenderDemanda(r)
    \/ ResolverAlertas \/ ListarVencimentos \/ ConfirmarAlertas \/ PerderRodada
    \/ Amanhecer

SpecDemandas == InitDemandas /\ [][NextDemandas]_varsDemandas

-----------------------------------------------------------------------------
(* Properties *)

\* A demand in a final status has a result, whatever editions overlapped: the
\* checks compare the row as it became, under its lock, with what was read.
FinalTemResultado ==
    \A d \in Demandas : demanda[d].status \in Finais => demanda[d].resultado # Nulo

\* A demand whose editions never crossed is in the state its last movement
\* tells. (One that reads a deadline, and puts it back after another edition
\* changed it, sees no change and writes no movement.)
MudancaTemMovimento ==
    \A d \in Demandas :
        cruzada[d] = "nao" /\ movimento[d] # Nulo => movimento[d] = demanda[d]

\* After a round of the job that nothing overlapped, an open alert holds, and
\* a demand on or past its deadline has an alert, open or once resolved.
AlertasEmDia ==
    emDia = "sim" /\ rodada.pc = "parada" =>
        /\ \A c \in Chaves : alertasPrazo[c] = "aberto" => Procede(c, hoje)
        /\ \A c \in AVencer(hoje) : alertasPrazo[c] # "sem"

\* DEMANDAS. A closed demand has a result and a movement that tells how, and
\* the alerts follow the deadlines.
DemandaConfere ==
    /\ FinalTemResultado
    /\ MudancaTemMovimento
    /\ AlertasEmDia

=============================================================================
