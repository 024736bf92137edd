--------------------------- MODULE MesclaPessoas ---------------------------
(***************************************************************************)
(* Registration of people, suspicions of duplicates and the assisted merge *)
(* of two records (mod_cadastro), on top of the hierarchy that the merge   *)
(* rewrites.  A merge reads the suspicion and both people, and then moves  *)
(* what the source has to the principal, a table after the other, before   *)
(* its commit: what others commit behind the statement of a table stays.   *)
(***************************************************************************)
EXTENDS HierarquiaLiderancas

CONSTANTS
    Titulos,       \* voter registration numbers
    MaxOperacoes   \* operations started in a behaviour (bound)

ASSUME OperacoesNaturais == MaxOperacoes \in Nat
ASSUME TitulosProprios == {"semEleitor", "semTitulo"} \cap Titulos = {}

VARIABLES
    contatos,      \* person -> values of its contacts
    titulo,        \* person -> its voter row: none, one without number, or the number
    suspeita,      \* pair -> status of the last suspicion about it
    mescla,        \* person -> the person it was merged into, or Nada
    ficha,         \* what each request that registers data carries and has seen
    tarde,         \* history: what the source of a merge got behind its statements
    ops            \* operations started so far

varsDados == <<contatos, titulo, suspeita, mescla>>
vars == <<varsHierarquia, req, varsDados, ficha, tarde, ops>>

Pares == {{p, q} : p, q \in Pessoas} \ {{p} : p \in Pessoas}
SemFicha == [valores |-> {}, titulo |-> "semEleitor", vistos |-> {}]
Situacoes == {"nenhuma", "pendente", "confirmada", "descartada", "mesclada"}
Ficha == [valores : SUBSET Valores, titulo : {"semEleitor", "semTitulo"} \cup Titulos,
          vistos : SUBSET Pessoas]

\* What a merge is about, in the order of its statements.
Partes == PassosMescla \ {"fechar"}
Rodadas(passo) ==
    CASE passo = "eleitor"    -> {"contatos"}
      [] passo = "lideranca"  -> {"contatos", "eleitor"}
      [] passo = "hierarquia" -> {"contatos", "eleitor", "lideranca"}
      [] passo = "recebidas"  -> {"contatos", "eleitor", "lideranca", "hierarquia"}
      [] passo = "feitas"     -> Partes \ {"feitas"}
      [] passo = "fechar"     -> Partes
      [] OTHER -> {}
SemTarde == [k \in Partes |-> {}]
Coisas == Valores \cup Titulos \cup Liderancas \cup Vinculos \cup Pessoas

TypeOK ==
    /\ TipoHierarquia
    /\ contatos \in [Pessoas -> SUBSET Valores]
    /\ titulo \in [Pessoas -> {"semEleitor", "semTitulo"} \cup Titulos]
    /\ suspeita \in [Pares -> Situacoes]
    /\ mescla \in [Pessoas -> Pessoas \cup {Nada}]
    /\ ficha \in [Requisicoes -> Ficha]
    /\ tarde \in [Requisicoes -> [Partes -> SUBSET Coisas]]
    /\ ops \in 0 .. MaxOperacoes

Init ==
    /\ InitHierarquia
    /\ contatos \in [Pessoas -> SUBSET Valores]
    /\ titulo \in [Pessoas -> {"semEleitor", "semTitulo"} \cup Titulos]
    /\ suspeita \in [Pares -> Situacoes]
    /\ mescla = [p \in Pessoas |-> Nada]
    /\ ficha = [r \in Requisicoes |-> SemFicha]
    /\ tarde = [r \in Requisicoes |-> SemTarde]
    /\ ops = 0

(***************************************************************************)
(* Registration.                                                           *)
(***************************************************************************)
TemTitulo(p) == titulo[p] \notin {"semEleitor", "semTitulo"}
TituloUsado(t, p) == \E q \in Pessoas \ {p} : TemTitulo(q) /\ titulo[q] = t

\* create_duplicate_suspicions: every other person with the contact, removed
\* and merged ones too.
Candidatos(p, S) == {q \in Pessoas \ {p} : contatos[q] \cap S # {}}

\* A suspicion is added unless one about the pair is pending.
Suspeitar(p, C) == [s \in Pares |->
    IF \E q \in C : s = {p, q} THEN "pendente" ELSE suspeita[s]]

\* create_person: the strong check, the references and the candidates are read
\* before the commit that makes the new rows visible.
LerCadastro(r, p, l, q, S, t) ==
    /\ req[r].passo = "ocioso"
    /\ pessoa[p] = "livre"
    /\ \A s \in Requisicoes : req[s].passo = "cadastrar" => req[s].p # p
    /\ t \in Titulos => ~TituloUsado(t, p)
    /\ l # Nada => lidera[l] # Nada
    /\ q # Nada => q \in Vivas
    /\ req' = [req EXCEPT ![r] = [Ociosa EXCEPT !.passo = "cadastrar", !.p = p, !.l = l, !.q = q]]
    /\ ficha' = [ficha EXCEPT ![r] = [valores |-> S, titulo |-> t, vistos |-> Candidatos(p, S)]]
    /\ UNCHANGED <<varsHierarquia, varsDados>>

\* The commit: the title's index and the leadership's key may refuse it.
Cadastrar(r) ==
    LET p == req[r].p
        l == req[r].l
        f == ficha[r]
    IN /\ req[r].passo = "cadastrar"
       /\ f.titulo \in Titulos => ~TituloUsado(f.titulo, p)
       /\ IF l = Nada THEN UNCHANGED vinculo
          ELSE /\ lidera[l] # Nada /\ ~LiderancaMovida(l)
               /\ \E v \in Vinculos : /\ Novo(v)
                                     /\ UmAtivoPorPessoa(ComLinha(v, l, p, "sim"))
                                     /\ vinculo' = ComLinha(v, l, p, "sim")
       /\ pessoa' = [pessoa EXCEPT ![p] = "viva"]
       /\ indicou' = [indicou EXCEPT ![p] = req[r].q]
       /\ contatos' = [contatos EXCEPT ![p] = f.valores]
       /\ titulo' = [titulo EXCEPT ![p] = f.titulo]
       /\ suspeita' = Suspeitar(p, f.vistos)
       /\ req' = [Envelhecer(req) EXCEPT ![r] = Ociosa]
       /\ ficha' = [ficha EXCEPT ![r] = SemFicha]
       /\ UNCHANGED <<lidera, mescla>>

\* add_contact: it looks for candidates before its commit.
LerContato(r, p, c) ==
    /\ req[r].passo = "ocioso"
    /\ p \in Vivas
    /\ req' = [req EXCEPT ![r] = [Ociosa EXCEPT !.passo = "contatar", !.p = p]]
    /\ ficha' = [ficha EXCEPT ![r] = [SemFicha EXCEPT !.valores = {c},
                                                      !.vistos = Candidatos(p, {c})]]
    /\ UNCHANGED <<varsHierarquia, varsDados>>

AdicionarContato(r) ==
    LET p == req[r].p IN
    /\ req[r].passo = "contatar"
    /\ contatos' = [contatos EXCEPT ![p] = @ \cup ficha[r].valores]
    /\ suspeita' = Suspeitar(p, ficha[r].vistos)
    /\ req' = Terminar(r)
    /\ ficha' = [ficha EXCEPT ![r] = SemFicha]
    /\ UNCHANGED <<varsHierarquia, titulo, mescla>>

\* Voter rows that an open merge has written.
EleitorPreso(p) == \E r \in Requisicoes :
    \/ p = req[r].p /\ req[r].muda.titulo # "nada"
    \/ p = req[r].q /\ req[r].muda.titulo \in {"linha", "numero"}

\* set_voter: the strong check and the unique index agree.
DefinirEleitor(p, t) ==
    /\ p \in Vivas
    /\ ~EleitorPreso(p)
    /\ t \in Titulos => ~TituloUsado(t, p)
    /\ titulo' = [titulo EXCEPT ![p] = t]
    /\ UNCHANGED <<varsHierarquia, req, contatos, suspeita, mescla, ficha>>

\* resolve_duplicate: any decision, whatever the status is; a second pending
\* suspicion about the pair cannot be.
Resolver(s, st) ==
    /\ suspeita[s] # "nenhuma"
    /\ suspeita' = [suspeita EXCEPT ![s] = st]
    /\ UNCHANGED <<varsHierarquia, req, contatos, titulo, mescla, ficha>>

(***************************************************************************)
(* The merge of s into p.  Each statement works on what is committed when  *)
(* it runs and waits for the rows that another merge has written; a read   *)
(* of the session and the write that follows it are one step.              *)
(***************************************************************************)
LerMescla(r, p, s) ==
    /\ req[r].passo = "ocioso"
    /\ p # s
    /\ suspeita[{p, s}] \notin {"nenhuma", "mesclada"}
    /\ mescla[s] = Nada
    /\ {p, s} \subseteq Vivas
    /\ req' = [req EXCEPT ![r] = [Ociosa EXCEPT !.passo = "contatos", !.p = p, !.q = s]]
    /\ UNCHANGED <<varsHierarquia, varsDados, ficha>>

\* A statement: the merge goes on with more rows written, nobody sees them.
Seguir(r, passo, muda) ==
    /\ req' = [req EXCEPT ![r] = [@ EXCEPT !.passo = passo, !.muda = muda]]
    /\ UNCHANGED <<varsHierarquia, varsDados, ficha>>

\* Documents, contacts, networks: a row moves unless the principal has it.
MoverContatos(r) ==
    LET s == req[r].q
        M == contatos[s] \ contatos[req[r].p]
    IN /\ req[r].passo = "contatos"
       /\ \A t \in Requisicoes : req[t].q = s => req[t].muda.contatos \cap M = {}
       /\ Seguir(r, "eleitor", [req[r].muda EXCEPT !.contatos = M])

\* Mutant: the number is no column that the principal's row is filled with.
AcaoEleitorSemNumero(p, s) ==
    CASE titulo[s] = "semEleitor" -> "nada"
      [] titulo[s] # "semEleitor" /\ titulo[p] = "semEleitor" -> "linha"
      [] OTHER -> "campos"

\* The voter row moves, or gives its number to a row that has none, or fills
\* other columns of it.  The two UPDATEs of an exchange of the number go out in
\* the order of the rows' ids: if the row of the principal is the older one the
\* index refuses it (Recusar).
AcaoEleitor(p, s) ==
    CASE titulo[s] = "semEleitor" -> "nada"
      [] titulo[s] # "semEleitor" /\ titulo[p] = "semEleitor" -> "linha"
      [] TemTitulo(s) /\ titulo[p] = "semTitulo" -> "numero"
      [] OTHER -> "campos"

MoverEleitor(r) ==
    LET p == req[r].p
        acao == AcaoEleitor(p, req[r].q)
    IN /\ req[r].passo = "eleitor"
       /\ ~PessoaPresa(p)
       /\ acao # "nada" => ~EleitorPreso(p)
       /\ acao \in {"linha", "numero"} => ~EleitorPreso(req[r].q)
       /\ Seguir(r, "lideranca", [req[r].muda EXCEPT !.titulo = acao])

\* The leadership moves if the principal has none, and is switched off if not.
MoverLideranca(r) ==
    LET L == {l \in Liderancas : lidera[l] = req[r].q} IN
    /\ req[r].passo = "lideranca"
    /\ \A l \in L : ~LiderancaPresa(l)
    /\ IF \E l \in Liderancas : lidera[l] = req[r].p
       THEN Seguir(r, "hierarquia", [req[r].muda EXCEPT !.desativa = L])
       ELSE Seguir(r, "hierarquia", [req[r].muda EXCEPT !.lidera = L])

\* Links above the source move, but for those of a superior and a day that the
\* principal has too (D).
Repetidos(p, s) ==
    {v \in Vinculos : vinculo[v].sub = s
                      /\ \E w \in Vinculos : vinculo[w].sub = p /\ vinculo[w].sup = vinculo[v].sup}

VinculosMovidos(p, M) ==
    [v \in Vinculos |-> IF v \in M THEN [vinculo[v] EXCEPT !.sub = p] ELSE vinculo[v]]

MoverVinculos(r) ==
    LET p == req[r].p
        s == req[r].q
    IN /\ req[r].passo = "hierarquia"
       /\ \E D \in SUBSET Repetidos(p, s) :
            LET M == {v \in Vinculos : vinculo[v].sub = s} \ D IN
            /\ \A v \in M : ~VinculoPreso(v)
            /\ M \cap Ativos # {} => ~AtivoPreso(p)
            /\ UmAtivoPorPessoa(VinculosMovidos(p, M))
            /\ Seguir(r, "recebidas", [req[r].muda EXCEPT !.vinculos = M])

\* Indications that another merge has written.
IndicacaoPresa(r, q) == \E t \in Requisicoes \ {r} :
    q \in req[t].muda.recebida \cup req[t].muda.feitas

\* uq_indicacao_pessoa_indicada_tenant: the principal must have received none.
MoverRecebida(r) ==
    LET p == req[r].p
        s == req[r].q
    IN /\ req[r].passo = "recebidas"
       /\ IF indicou[s] = Nada THEN Seguir(r, "feitas", req[r].muda)
          ELSE /\ indicou[p] = Nada /\ ~IndicadaPresa(p) /\ ~IndicacaoPresa(r, s)
               /\ Seguir(r, "feitas", [req[r].muda EXCEPT !.recebida = {s}])

MoverFeitas(r) ==
    LET F == {q \in Pessoas : indicou[q] = req[r].q} IN
    /\ req[r].passo = "feitas"
    /\ \A q \in F : ~IndicacaoPresa(r, q)
    /\ Seguir(r, "fechar", [req[r].muda EXCEPT !.feitas = F])

(***************************************************************************)
(* Its last statements and the commit, which make m, what the others wrote,*)
(* visible.                                                                *)
(***************************************************************************)
ContatosMovidos(p, s, m) ==
    [contatos EXCEPT ![p] = @ \cup m.contatos, ![s] = @ \ m.contatos]

TitulosMovidos(p, s, m) ==
    CASE m.titulo = "linha"  -> [titulo EXCEPT ![p] = titulo[s], ![s] = "semEleitor"]
      [] m.titulo = "numero" -> [titulo EXCEPT ![p] = titulo[s], ![s] = "semTitulo"]
      [] OTHER -> titulo

LiderancasMovidas(p, m) == [l \in Liderancas |-> IF l \in m.lidera THEN p ELSE lidera[l]]

\* The indication the source received names the principal; one made to the
\* principal itself loses who made it.
IndicacoesMovidas(p, s, m) ==
    [q \in Pessoas |->
        IF q = s /\ m.recebida # {} THEN Nada
        ELSE IF q = p /\ m.recebida # {} THEN IF indicou[s] = s THEN "anonima" ELSE indicou[s]
        ELSE IF q \in m.feitas /\ indicou[q] = s THEN IF q = p THEN "anonima" ELSE p
        ELSE indicou[q]]

\* Every open suspicion about either of them is closed as merged.
SuspeitasFechadas(p, s) ==
    [t \in Pares |-> IF suspeita[t] \in {"pendente", "confirmada"} /\ t \cap {p, s} # {}
                     THEN "mesclada" ELSE suspeita[t]]

\* Mutant: no unique index on the source of a merge.
MesclaCabeDeNovo(s) == s \in Pessoas

\* uq_pessoa_merge_origem
MesclaCabe(s) == mescla[s] = Nada

FecharMescla(r) ==
    LET p == req[r].p
        s == req[r].q
        m == req[r].muda
    IN /\ req[r].passo = "fechar"
       /\ MesclaCabe(s)
       /\ ~PessoaPresa(s)
       /\ contatos' = ContatosMovidos(p, s, m)
       /\ titulo' = TitulosMovidos(p, s, m)
       /\ lidera' = LiderancasMovidas(p, m)
       /\ vinculo' = VinculosMovidos(p, m.vinculos)
       /\ indicou' = IndicacoesMovidas(p, s, m)
       /\ suspeita' = SuspeitasFechadas(p, s)
       /\ pessoa' = [pessoa EXCEPT ![s] = "excluida"]
       /\ mescla' = [mescla EXCEPT ![s] = p]
       /\ req' = [Envelhecer(req) EXCEPT ![r] = Ociosa]
       /\ UNCHANGED ficha

Mesclar(r) ==
    \/ MoverContatos(r) \/ MoverEleitor(r) \/ MoverLideranca(r) \/ MoverVinculos(r)
    \/ MoverRecebida(r) \/ MoverFeitas(r) \/ FecharMescla(r)

\* What the source has of a part and the principal lacks ...
Falta(k, p, s) ==
    CASE k = "contatos"   -> contatos[s] \ contatos[p]
      [] k = "eleitor"    -> IF TemTitulo(s) /\ ~TemTitulo(p) THEN {titulo[s]} ELSE {}
      [] k = "lideranca"  -> IF \E l \in Liderancas : lidera[l] = p THEN {}
                             ELSE {l \in Liderancas : lidera[l] = s}
      [] k = "hierarquia" -> {v \in Vinculos : vinculo[v].sub = s} \ Repetidos(p, s)
      [] k = "recebidas"  -> IF indicou[s] # Nada /\ indicou[p] = Nada THEN {s} ELSE {}
      [] k = "feitas"     -> {q \in Pessoas : indicou[q] = s}
      [] OTHER -> {}

\* ... and what of it others committed once the statement had run.
AnotarTarde ==
    tarde' = [r \in Requisicoes |-> [k \in Partes |->
        IF req'[r].passo \in PassosMescla /\ k \in Rodadas(req[r].passo)
        THEN tarde[r][k] \cup (Falta(k, req[r].p, req[r].q)' \ Falta(k, req[r].p, req[r].q))
        ELSE {}]]

Comecar ==
    \/ ComecarHierarquia /\ UNCHANGED <<varsDados, ficha>>
    \/ \E r \in Requisicoes, p \in Pessoas, S \in SUBSET Valores,
          l \in Liderancas \cup {Nada}, q \in Pessoas \cup {Nada},
          t \in {"semEleitor", "semTitulo"} \cup Titulos : LerCadastro(r, p, l, q, S, t)
    \/ \E r \in Requisicoes, p \in Pessoas, c \in Valores : LerContato(r, p, c)
    \/ \E p \in Pessoas, t \in {"semTitulo"} \cup Titulos : DefinirEleitor(p, t)
    \/ \E s \in Pares, st \in {"pendente", "confirmada", "descartada"} : Resolver(s, st)
    \/ \E r \in Requisicoes, p, s \in Pessoas : LerMescla(r, p, s)

Gravar(r) ==
    \/ /\ GravarHierarquia(r)
       /\ ficha' = [ficha EXCEPT ![r] = SemFicha]
       /\ UNCHANGED varsDados
    \/ Cadastrar(r) \/ AdicionarContato(r) \/ Mesclar(r)

Next ==
    /\ \/ ops < MaxOperacoes /\ Comecar /\ ops' = ops + 1
       \/ \E r \in Requisicoes : Gravar(r) /\ UNCHANGED ops
    /\ AnotarTarde

Spec == Init /\ [][Next]_vars

-----------------------------------------------------------------------------
\* A person is merged once: a second manager who read the same record before
\* the first merge committed is refused, and a merged record never comes back.
MescladaUmaVez ==
    [][\A p \in Pessoas : mescla[p] # Nada => mescla'[p] = mescla[p] /\ pessoa'[p] = "excluida"]_vars

\* "Gestor mescla registros com ... preservacao de historico": the only things
\* a merged record has that the other lacks are those that somebody committed
\* behind the statement of their table; what was there when it ran, also if it
\* was added after the manager read both records, is the principal's.
MesclaLevaTudo ==
    [][\A r \in Requisicoes, p, s \in Pessoas :
          (/\ req[r].passo = "fechar" /\ req[r].p = p /\ req[r].q = s
           /\ req'[r] = Ociosa /\ mescla[s] = Nada /\ mescla'[s] = p)
          => \A k \in Partes : Falta(k, p, s)' \subseteq tarde[r][k]]_vars

\* Refuted: the principal of a merge is a live record when it commits.
MesclaEmPessoaViva ==
    [][\A p, s \in Pessoas : (mescla[s] = Nada /\ mescla'[s] = p) => pessoa[p] = "viva"]_vars

\* Refuted: "Uma pessoa nao pode indicar a si mesma."
SemAutoIndicacao == \A p \in Pessoas : indicou[p] # p
=============================================================================
